---- MODULE Spec2Model ----
(***************************************************************************)
(* Reply-correlation engine of the supplier-onboarding bot.                *)
(*                                                                         *)
(*   bot/models/sent_email.py        the outbound ledger table (SentEmail) *)
(*   bot/services/email_service.py   send_email, save_sent_email,          *)
(*                                   mark_reply_received, the campaign     *)
(*   bot/services/email_receiver.py  fetch_replies,                        *)
(*                                   fetch_unprocessed_replies             *)
(*   bot/services/reply_processor.py process_email_replies                 *)
(*                                                                         *)
(* Identifiers (Message-ID, In-Reply-To, reply_message_id) are naturals;   *)
(* NoId stands for Python's None and for the empty string, which the code  *)
(* treats alike (`if reply_message_id:`, `bool(parsed.in_reply_to)`).      *)
(* Timestamps are naturals, NoTime is a NULL reply_received_at.            *)
(*                                                                         *)
(* Six specifications share the variables:                                 *)
(*   LedgerSpec    the ledger operations called directly, in any order;    *)
(*   Spec          the scheduler's poll cycles against a mailbox;          *)
(*   CampaignSpec  send_supplier_registration_emails;                      *)
(*   TextSpec      the text functions (identifiers, codes, quote removal); *)
(*   FaultSpec     poll cycles whose collaborators may fail;               *)
(*   RaceSpec      overlapping invocations of process_email_replies.       *)
(* The ledger is a database table: it outlives the process, so Init        *)
(* starts from a table that already holds pending rows.                    *)
(***************************************************************************)
EXTENDS Naturals, Integers, Sequences, FiniteSets, TLC

VARIABLES
    ledger,          \* sent_emails table, a sequence of rows in id order
    now,             \* datetime.now(timezone.utc)
    lastOp,          \* the last function called directly and its outcome
    mailbox,         \* INBOX, a sequence of inbound messages in uid order
    pc,              \* "idle" | "processing": position of the poll cycle
    cycle,           \* number of poll cycles started
    box,             \* the mailbox as the current/last cycle fetched it
    prevBox,         \* the mailbox as the cycle before fetched it
    pendingAtFetch,  \* message_ids of the rows pending when the cycle fetched
    corr,            \* per candidate of the batch: what the matcher decided
    replies,         \* matched replies the cycle has still to process
    processed_count, \* process_email_replies' counter
    marks,           \* log of mark_reply_received calls made by poll cycles
    registry,        \* log of registry (Google Sheets) status updates
    notifications,   \* log of requester notifications
    tempFiles,       \* attachment files staged in temporary storage
    loopLog,         \* FaultSpec: log of the passes of the candidate loop
    runs,            \* RaceSpec: the invocations of process_email_replies
    jobs,            \* FaultSpec: log of the runs of check_email_replies_job
    campaigns,       \* log of finished send_supplier_registration_emails calls
    wire,            \* log of SMTP transmissions
    saveCalls,       \* log of save_sent_email calls
    nextUid,         \* uuid source of generate_message_id
    EMAIL_TEST_MODE, \* sandbox toggle, read once at import
    smtpConfigured   \* SMTP_EMAIL and SMTP_PASSWORD are both set

ledgerVars == <<ledger, now, lastOp>>
pollVars == <<mailbox, pc, cycle, box, prevBox, pendingAtFetch, corr, replies,
              processed_count, marks, registry, notifications, tempFiles,
              loopLog, runs, jobs>>
campaignVars == <<campaigns, wire, saveCalls, nextUid>>
configVars == <<EMAIL_TEST_MODE, smtpConfigured>>
vars == <<ledgerVars, pollVars, campaignVars, configVars>>

----------------------------------------------------------------------------
(* Bounds *)
MaxTime == 2
MaxMailbox == 2
MaxCycles == 2
MaxCampaigns == 1

(* Values *)
NoId == 0
NoTime == 0
NoCode == "none"
NoSheet == "none"
Sheet == "sheet-1"
NoUser == 0
User == 7

EmailType == {"sb_check", "docsinbox", "roaming", "documents"}
TrackingCodes == {"ML-ABCDE", "ML-00000"}
TEST_EMAIL == "test@diagnostic"

\* Columns of the mapped class.  There is no tracking_code column.
SentEmailColumns ==
    {"id", "message_id", "supplier_inn", "supplier_name", "email_type",
     "recipient", "cc_recipients", "subject", "sent_at", "telegram_user_id",
     "company_id", "sheet_id", "reply_received", "reply_received_at",
     "reply_message_id"}

\* hasattr(email_obj, 'tracking_code') and email_obj.tracking_code
RowTrackingCode(row) ==
    IF "tracking_code" \in SentEmailColumns THEN row.tracking_code ELSE NoCode

\* A row as the table stores it.  subject_code is the "[ML-XXXXX]" literal
\* inside the stored subject; tracking_code is only meaningful when the
\* class maps such a column, NoCode otherwise (attribute absent).
SentEmail(message_id, tracking_code, email_type, recipient, cc_recipients, subject_code, telegram_user_id, sheet_id) ==
    [message_id |-> message_id,
     tracking_code |-> IF "tracking_code" \in SentEmailColumns
                       THEN tracking_code ELSE NoCode,
     email_type |-> email_type,
     recipient |-> recipient,
     cc_recipients |-> cc_recipients,
     subject_code |-> subject_code,
     telegram_user_id |-> telegram_user_id,
     sheet_id |-> sheet_id,
     reply_received |-> FALSE,
     reply_received_at |-> NoTime,
     reply_message_id |-> NoId]

----------------------------------------------------------------------------
(* Outbound ledger: email_service.py *)

RowsWith(rows, message_id) ==
    {i \in DOMAIN rows : rows[i].message_id = message_id}

\* get_sent_email_by_message_id: the row, or NoRow
NoRow == [message_id |-> NoId]
get_sent_email_by_message_id(rows, message_id) ==
    IF RowsWith(rows, message_id) = {} THEN NoRow
    ELSE rows[CHOOSE i \in RowsWith(rows, message_id) : TRUE]

\* The keyword arguments save_sent_email passes to the SentEmail constructor.
SaveKwargs ==
    {"message_id", "tracking_code", "supplier_inn", "supplier_name",
     "email_type", "recipient", "cc_recipients", "subject",
     "telegram_user_id", "company_id", "sheet_id"}

\* Mutant of save_sent_email: the row is added without the unique constraint
\* on message_id and without the keyword check.
save_sent_email_no_unique(rows, message_id, tracking_code, email_type, recipient, cc_recipients, subject_code, telegram_user_id, sheet_id) ==
    [rows |-> Append(rows, SentEmail(message_id, tracking_code, email_type,
                                     recipient, cc_recipients, subject_code,
                                     telegram_user_id, sheet_id)),
     ok |-> TRUE]

\* save_sent_email.  The declarative constructor raises TypeError for a
\* keyword that is not a mapped attribute, commit raises IntegrityError for
\* a duplicate message_id; both are caught and reported as False.
save_sent_email(rows, message_id, tracking_code, email_type, recipient, cc_recipients, subject_code, telegram_user_id, sheet_id) ==
    IF /\ email_type \in EmailType
       /\ SaveKwargs \subseteq SentEmailColumns
       /\ RowsWith(rows, message_id) = {}
    THEN [rows |-> Append(rows, SentEmail(message_id, tracking_code,
                                          email_type, recipient,
                                          cc_recipients, subject_code,
                                          telegram_user_id, sheet_id)),
          ok |-> TRUE]
    ELSE [rows |-> rows, ok |-> FALSE]

\* Mutant of MarkRow: the flag follows the presence of a reply identifier.
MarkRowFlagFromReply(row, reply_message_id, t) ==
    [row EXCEPT !.reply_received = (reply_message_id # NoId),
                !.reply_received_at = t,
                !.reply_message_id =
                    IF reply_message_id # NoId THEN reply_message_id ELSE @]

\* mark_reply_received, the update of the row that was found
MarkRow(row, reply_message_id, t) ==
    [row EXCEPT !.reply_received = TRUE,
                !.reply_received_at = t,
                !.reply_message_id =
                    IF reply_message_id # NoId THEN reply_message_id ELSE @]

\* mark_reply_received
mark_reply_received(rows, message_id, reply_message_id, t) ==
    IF RowsWith(rows, message_id) = {}
    THEN [rows |-> rows, ok |-> FALSE]
    ELSE LET i == CHOOSE j \in RowsWith(rows, message_id) : TRUE
         IN  [rows |-> [rows EXCEPT ![i] = MarkRow(@, reply_message_id, t)],
              ok |-> TRUE]

----------------------------------------------------------------------------
(* Inbound messages: email_receiver.py *)

\* A subject line, reduced to what the code reads from it: whether it starts
\* with a reply/forward marker, the first "[ML-XXXXX]" literal in it, and
\* which keyword stems occur in its lower-cased text.
Stems == {"rouming", "sb", "proverk", "docsinbox", "nastroyk", "dokument"}
Subject(re, code, words) == [re |-> re, code |-> code, words |-> words]

\* IncomingEmail, the headers the correlation uses
IncomingEmail(message_id, in_reply_to, references, subject) ==
    [message_id |-> message_id, in_reply_to |-> in_reply_to,
     references |-> references, subject |-> subject]

\* extract_tracking_code
extract_tracking_code(subject) == subject.code

\* fetch_replies: is_reply or is_re_subject
IsCandidate(parsed) == parsed.in_reply_to # NoId \/ parsed.subject.re

\* Mutant of fetch_replies: every parsed message is returned.
fetch_replies_unfiltered(inbox) == inbox

\* fetch_replies
fetch_replies(inbox) == SelectSeq(inbox, IsCandidate)

\* Mutant of PendingEmails: rows that are already replied stay candidates
\* for a match.
PendingEmailsAll(rows) == rows

\* select(SentEmail).where(SentEmail.reply_received == False)
PendingEmails(rows) == SelectSeq(rows, LAMBDA e : ~e.reply_received)

\* processed_reply_ids
ProcessedReplyIds(rows) ==
    {rows[i].reply_message_id :
        i \in {j \in DOMAIN rows : /\ rows[j].reply_received
                                   /\ rows[j].reply_message_id # NoId}}

\* our_message_ids
OurMessageIds(pending) == {pending[i].message_id : i \in DOMAIN pending}

\* code_to_emails[code], empty when the code is not a key
CodeToEmails(pending, code) ==
    IF code = NoCode THEN <<>>
    ELSE SelectSeq(pending, LAMBDA e : RowTrackingCode(e) = code)

\* The if/elif chain on email_type and subject_lower
TypeMatchesSubject(email_type, words) ==
    \/ email_type = "roaming" /\ "rouming" \in words
    \/ email_type = "sb_check" /\ ("sb" \in words \/ "proverk" \in words)
    \/ email_type = "docsinbox"
         /\ \/ "docsinbox" \in words
            \/ "nastroyk" \in words /\ "rouming" \notin words
    \/ email_type = "documents" /\ "dokument" \in words

\* message_id of the first row of a list, NoId for the empty list
FirstId(rowlist) == IF rowlist = <<>> THEN NoId ELSE rowlist[1].message_id

\* Step 1: the row for the subject's code, by keyword, else the first one
\* that no earlier reply of the batch took
MatchByCode(reply, pending, matched_message_ids) ==
    LET code == extract_tracking_code(reply.subject)
        free == SelectSeq(CodeToEmails(pending, code),
                          LAMBDA e : e.message_id \notin matched_message_ids)
        typed == SelectSeq(free,
                    LAMBDA e : TypeMatchesSubject(e.email_type,
                                                  reply.subject.words))
    IN  IF typed # <<>> THEN FirstId(typed) ELSE FirstId(free)

\* Step 2: In-Reply-To
MatchByInReplyTo(reply, pending) ==
    IF reply.in_reply_to # NoId /\ reply.in_reply_to \in OurMessageIds(pending)
    THEN reply.in_reply_to ELSE NoId

\* Mutant of MatchByReferences: the chain is scanned from its newest end.
MatchByReferencesNewestFirst(reply, pending) ==
    LET ours == SelectSeq(reply.references,
                          LAMBDA ref : ref \in OurMessageIds(pending))
    IN  IF ours = <<>> THEN NoId ELSE ours[Len(ours)]

\* Step 3: the first reference that is one of ours
MatchByReferences(reply, pending) ==
    LET ours == SelectSeq(reply.references,
                          LAMBDA ref : ref \in OurMessageIds(pending))
    IN  IF ours = <<>> THEN NoId ELSE ours[1]

\* Mutant of MatchOne: the References chain is consulted before In-Reply-To.
MatchOneReferencesFirst(reply, pending, processed_reply_ids, matched_message_ids) ==
    LET byCode == MatchByCode(reply, pending, matched_message_ids)
        byIrt == MatchByInReplyTo(reply, pending)
        byRef == MatchByReferences(reply, pending)
        step == IF reply.message_id \in processed_reply_ids THEN "processed"
                ELSE IF byCode # NoId THEN "code"
                ELSE IF byRef # NoId THEN "references"
                ELSE IF byIrt # NoId THEN "in_reply_to"
                ELSE "none"
        matched_email == CASE step = "code" -> byCode
                           [] step = "in_reply_to" -> byIrt
                           [] step = "references" -> byRef
                           [] OTHER -> NoId
    IN  [reply |-> reply,
         step |-> step,
         matched_message_id |-> matched_email,
         matched_tracking_code |->
             IF step = "code" THEN extract_tracking_code(reply.subject)
             ELSE NoCode,
         accepted |-> /\ matched_email # NoId
                      /\ matched_email \notin matched_message_ids]

\* Mutant of MatchOne: a row taken by an earlier reply of the batch is
\* matched again.
MatchOneNoDedup(reply, pending, processed_reply_ids, matched_message_ids) ==
    LET byCode == MatchByCode(reply, pending, matched_message_ids)
        byIrt == MatchByInReplyTo(reply, pending)
        byRef == MatchByReferences(reply, pending)
        step == IF reply.message_id \in processed_reply_ids THEN "processed"
                ELSE IF byCode # NoId THEN "code"
                ELSE IF byIrt # NoId THEN "in_reply_to"
                ELSE IF byRef # NoId THEN "references"
                ELSE "none"
        matched_email == CASE step = "code" -> byCode
                           [] step = "in_reply_to" -> byIrt
                           [] step = "references" -> byRef
                           [] OTHER -> NoId
    IN  [reply |-> reply,
         step |-> step,
         matched_message_id |-> matched_email,
         matched_tracking_code |->
             IF step = "code" THEN extract_tracking_code(reply.subject)
             ELSE NoCode,
         accepted |-> matched_email # NoId]

\* Mutant of MatchOne: a reply that no step matches falls back to the
\* oldest pending row.
MatchOneFallbackOldest(reply, pending, processed_reply_ids, matched_message_ids) ==
    LET byCode == MatchByCode(reply, pending, matched_message_ids)
        byIrt == MatchByInReplyTo(reply, pending)
        byRef == MatchByReferences(reply, pending)
        step == IF reply.message_id \in processed_reply_ids THEN "processed"
                ELSE IF byCode # NoId THEN "code"
                ELSE IF byIrt # NoId THEN "in_reply_to"
                ELSE IF byRef # NoId THEN "references"
                ELSE "none"
        matched_email == CASE step = "code" -> byCode
                           [] step = "in_reply_to" -> byIrt
                           [] step = "references" -> byRef
                           [] step = "none" -> FirstId(pending)
                           [] OTHER -> NoId
    IN  [reply |-> reply,
         step |-> step,
         matched_message_id |-> matched_email,
         matched_tracking_code |->
             IF step = "code" THEN extract_tracking_code(reply.subject)
             ELSE NoCode,
         accepted |-> /\ matched_email # NoId
                      /\ matched_email \notin matched_message_ids]

\* One pass of the loop body of fetch_unprocessed_replies
MatchOne(reply, pending, processed_reply_ids, matched_message_ids) ==
    LET byCode == MatchByCode(reply, pending, matched_message_ids)
        byIrt == MatchByInReplyTo(reply, pending)
        byRef == MatchByReferences(reply, pending)
        step == IF reply.message_id \in processed_reply_ids THEN "processed"
                ELSE IF byCode # NoId THEN "code"
                ELSE IF byIrt # NoId THEN "in_reply_to"
                ELSE IF byRef # NoId THEN "references"
                ELSE "none"
        matched_email == CASE step = "code" -> byCode
                           [] step = "in_reply_to" -> byIrt
                           [] step = "references" -> byRef
                           [] OTHER -> NoId
    IN  [reply |-> reply,
         step |-> step,
         matched_message_id |-> matched_email,
         matched_tracking_code |->
             IF step = "code" THEN extract_tracking_code(reply.subject)
             ELSE NoCode,
         accepted |-> /\ matched_email # NoId
                      /\ matched_email \notin matched_message_ids]

\* The loop of fetch_unprocessed_replies over all_replies; the result has
\* one decision per candidate, in batch order
RECURSIVE MatchLoop(_, _, _, _, _)
MatchLoop(all_replies, pending, processed_reply_ids, matched_message_ids, decisions) ==
    IF all_replies = <<>> THEN decisions
    ELSE LET d == MatchOne(Head(all_replies), pending, processed_reply_ids,
                           matched_message_ids)
         IN  MatchLoop(Tail(all_replies), pending, processed_reply_ids,
                       IF d.accepted
                       THEN matched_message_ids \cup {d.matched_message_id}
                       ELSE matched_message_ids,
                       Append(decisions, d))

\* fetch_unprocessed_replies, with the early returns
Correlate(inbox, rows) ==
    IF fetch_replies(inbox) = <<>> \/ PendingEmails(rows) = <<>> THEN <<>>
    ELSE MatchLoop(fetch_replies(inbox), PendingEmails(rows),
                   ProcessedReplyIds(rows), {}, <<>>)

\* matched_replies
fetch_unprocessed_replies(inbox, rows) ==
    SelectSeq(Correlate(inbox, rows), LAMBDA d : d.accepted)

----------------------------------------------------------------------------
(* Initial states *)

\* Recipient and CC of the four campaign letters (create_email_1..4)
DEFAULT_CC == <<"default_cc">>
ToOf(email_type, contact_email) ==
    CASE email_type = "sb_check" -> <<"Ol.Pak@x5.ru">>
      [] email_type = "docsinbox" -> <<"m.chernykh@docsinbox.ru">>
      [] email_type = "roaming" -> <<"edi_request@skbkontur.ru">>
      [] OTHER -> IF contact_email # "" THEN <<contact_email>> ELSE <<>>
CcOf(email_type) ==
    IF email_type = "roaming" THEN <<"l.ermakova@skbkontur.ru">> \o DEFAULT_CC
    ELSE DEFAULT_CC
ContactEmail == "supplier@contact"

\* The letters of one campaign: the documents letter is sent only when the
\* supplier has a contact e-mail
CampaignLetters ==
    {{"sb_check", "docsinbox", "roaming"},
     {"sb_check", "docsinbox", "roaming", "documents"}}

\* The orders in which a query without ORDER BY may return the rows of one
\* campaign; the empty order is the empty table
TypeOrders ==
    {<<>>} \cup
    UNION {{o \in [1..Cardinality(letters) -> letters] :
               \A i, j \in DOMAIN o : i # j => o[i] # o[j]} :
           letters \in CampaignLetters}

\* A table holding the pending rows of one campaign ML-ABCDE, row i having
\* message_id i
CampaignRows(order, sheet_id) ==
    [i \in DOMAIN order |->
        SentEmail(i, "ML-ABCDE", order[i], ToOf(order[i], ContactEmail)[1],
                  CcOf(order[i]), "ML-ABCDE", User, sheet_id)]

NoOp == [op |-> "none", message_id |-> NoId, reply_message_id |-> NoId,
         ok |-> TRUE]

InitIdle ==
    /\ now = 1
    /\ mailbox = <<>>
    /\ pc = "idle"
    /\ cycle = 0
    /\ box = <<>>
    /\ prevBox = <<>>
    /\ pendingAtFetch = {}
    /\ corr = <<>>
    /\ replies = <<>>
    /\ processed_count = 0
    /\ marks = <<>>
    /\ registry = <<>>
    /\ notifications = <<>>
    /\ tempFiles = {}
    /\ loopLog = <<>>
    /\ runs = <<>>
    /\ jobs = <<>>
    /\ campaigns = <<>>
    /\ wire = <<>>
    /\ saveCalls = <<>>
    /\ nextUid = 101

\* No ledger operation has been called
InitRest ==
    /\ lastOp = NoOp
    /\ InitIdle

\* Poll cycles: any stored order of a campaign's rows, with or without a
\* registry sheet; the configuration is the default one
Init ==
    /\ \E order \in TypeOrders, sheet_id \in {NoSheet, Sheet} :
          ledger = CampaignRows(order, sheet_id)
    /\ EMAIL_TEST_MODE = TRUE
    /\ smtpConfigured = TRUE
    /\ InitRest

----------------------------------------------------------------------------
(* Time *)

Tick ==
    /\ now < MaxTime
    /\ now' = now + 1
    /\ UNCHANGED <<ledger, lastOp, pollVars, campaignVars, configVars>>

----------------------------------------------------------------------------
(* Poll cycle: reply_processor.py *)

\* Messages that arrive in the INBOX.  Rows are addressed by message_id
\* 1 and 2; 9 is a Message-ID this system never sent.
SubjectRe == Subject(TRUE, NoCode, {})
SubjectNew == Subject(FALSE, NoCode, {})
SubjectRoaming == Subject(TRUE, "ML-ABCDE", {"nastroyk", "rouming"})
SubjectCodeOnly == Subject(TRUE, "ML-ABCDE", {})
SubjectNewCoded == Subject(FALSE, "ML-ABCDE", {"nastroyk", "rouming"})
Inbound ==
    { IncomingEmail(11, 1, <<>>, SubjectRe),
      IncomingEmail(12, 1, <<2>>, SubjectRe),
      IncomingEmail(NoId, 1, <<2>>, SubjectRe),
      IncomingEmail(11, 2, <<>>, SubjectRe),
      IncomingEmail(13, 1, <<>>, SubjectRoaming),
      IncomingEmail(14, NoId, <<1>>, SubjectNew),
      IncomingEmail(15, 9, <<9, 2>>, SubjectNew),
      IncomingEmail(16, NoId, <<>>, SubjectCodeOnly),
      IncomingEmail(17, NoId, <<1, 2>>, SubjectRe) }

\* A message is delivered to the mailbox
Deliver ==
    /\ Len(mailbox) < MaxMailbox
    /\ \E m \in Inbound : mailbox' = Append(mailbox, m)
    /\ UNCHANGED <<ledgerVars, pc, cycle, box, prevBox, pendingAtFetch, corr,
                   replies, processed_count, marks, registry, notifications,
                   tempFiles, loopLog, runs, jobs,
                   campaignVars, configVars>>

\* process_email_replies up to the loop: fetch and correlate.  The interval
\* trigger fires every cycle later than the one before.
StartCycle ==
    /\ pc = "idle"
    /\ cycle < MaxCycles
    /\ cycle' = cycle + 1
    /\ now' = now + 1
    /\ prevBox' = box
    /\ box' = mailbox
    /\ pendingAtFetch' = OurMessageIds(PendingEmails(ledger))
    /\ corr' = Correlate(mailbox, ledger)
    /\ replies' = fetch_unprocessed_replies(mailbox, ledger)
    /\ processed_count' = 0
    /\ pc' = IF replies' = <<>> THEN "idle" ELSE "processing"
    /\ UNCHANGED <<ledger, lastOp, mailbox, marks, registry, notifications,
                   tempFiles, loopLog, runs, jobs,
                   campaignVars, configVars>>

\* Mutant of OriginalMessageId: the newest reference is preferred to the
\* row the correlation matched.
OriginalMessageIdLastReference(r) ==
    IF r.reply.references # <<>>
    THEN r.reply.references[Len(r.reply.references)]
    ELSE r.matched_message_id

\* original_message_id of a matched reply
OriginalMessageId(r) ==
    IF r.matched_message_id # NoId THEN r.matched_message_id
    ELSE IF r.reply.in_reply_to # NoId THEN r.reply.in_reply_to
    ELSE IF r.reply.references # <<>>
         THEN r.reply.references[Len(r.reply.references)]
    ELSE NoId

\* The registry call made for a row: by tracking code when one is known,
\* by supplier INN otherwise
RegistryUpdate(sent_email, r) ==
    LET tracking_code == IF RowTrackingCode(sent_email) # NoCode
                         THEN RowTrackingCode(sent_email)
                         ELSE r.matched_tracking_code
    IN  [cycle |-> cycle, reply |-> r.reply, row |-> sent_email.message_id,
         sheet_id |-> sent_email.sheet_id,
         email_type |-> sent_email.email_type,
         by |-> IF tracking_code # NoCode THEN "tracking_code" ELSE "inn",
         tracking_code |-> tracking_code]

\* One pass of the loop body of process_email_replies
ProcessReply ==
    /\ pc = "processing"
    /\ replies # <<>>
    /\ LET r == Head(replies)
           original_message_id == OriginalMessageId(r)
           sent_email == get_sent_email_by_message_id(ledger,
                                                      original_message_id)
           m == mark_reply_received(ledger, original_message_id,
                                    r.reply.message_id, now)
       IN  IF original_message_id = NoId \/ sent_email = NoRow
           THEN UNCHANGED <<ledger, marks, registry, notifications,
                            processed_count>>
           ELSE /\ ledger' = m.rows
                /\ marks' = Append(marks,
                              [cycle |-> cycle, reply |-> r.reply,
                               row |-> original_message_id, ok |-> m.ok,
                               was_replied |-> sent_email.reply_received])
                /\ registry' = IF sent_email.sheet_id # NoSheet
                               THEN Append(registry,
                                           RegistryUpdate(sent_email, r))
                               ELSE registry
                /\ notifications' = Append(notifications,
                              [cycle |-> cycle, reply |-> r.reply,
                               row |-> original_message_id,
                               email_type |-> sent_email.email_type,
                               telegram_user_id |->
                                   sent_email.telegram_user_id])
                /\ processed_count' = processed_count + 1
    /\ replies' = Tail(replies)
    /\ pc' = IF replies' = <<>> THEN "idle" ELSE "processing"
    /\ UNCHANGED <<now, lastOp, mailbox, cycle, box, prevBox, pendingAtFetch,
                   corr, tempFiles, loopLog, runs, jobs,
                   campaignVars, configVars>>

Next ==
    \/ Deliver
    \/ StartCycle
    \/ ProcessReply

Spec == Init /\ [][Next]_vars

----------------------------------------------------------------------------
(* The ledger operations called directly *)

MaxLedgerRows == 2
LetterOrder == <<"sb_check", "docsinbox", "roaming", "documents">>
ReplyIds == {11, 12}

LedgerInit ==
    /\ \E n \in 0..MaxLedgerRows :
          ledger = CampaignRows([i \in 1..n |-> LetterOrder[((i - 1) % 4) + 1]],
                                Sheet)
    /\ EMAIL_TEST_MODE = TRUE
    /\ smtpConfigured = TRUE
    /\ InitRest

\* mark_reply_received(message_id, reply_message_id), also for a message_id
\* that has no row and without a reply identifier (the default None)
CallMark ==
    /\ \E message_id \in 1..(MaxLedgerRows + 1),
          reply_message_id \in ReplyIds \cup {NoId} :
          LET m == mark_reply_received(ledger, message_id, reply_message_id,
                                       now)
          IN  /\ ledger' = m.rows
              /\ lastOp' = [op |-> "mark_reply_received",
                            message_id |-> message_id,
                            reply_message_id |-> reply_message_id,
                            ok |-> m.ok]
    /\ UNCHANGED <<now, pollVars, campaignVars, configVars>>

\* save_sent_email(message_id, ...)
CallSave ==
    /\ \E message_id \in 1..(MaxLedgerRows + 1), email_type \in EmailType :
          LET s == save_sent_email(ledger, message_id, "ML-ABCDE", email_type,
                                   ToOf(email_type, ContactEmail)[1],
                                   CcOf(email_type), "ML-ABCDE", User, Sheet)
          IN  /\ ledger' = s.rows
              /\ lastOp' = [op |-> "save_sent_email",
                            message_id |-> message_id,
                            reply_message_id |-> NoId,
                            ok |-> s.ok]
    /\ UNCHANGED <<now, pollVars, campaignVars, configVars>>

LedgerNext ==
    \/ Tick
    \/ CallMark
    \/ CallSave

LedgerSpec == LedgerInit /\ [][LedgerNext]_vars

----------------------------------------------------------------------------
(* Claims about the ledger operations, under LedgerSpec *)

\* The reply state of a row
ReplyState(row) ==
    <<row.reply_received, row.reply_message_id, row.reply_received_at>>

\* The step is a call mark_reply_received(row i, r) where r is the reply
\* identifier row i already stores
RemarkSame(i) ==
    /\ ledger[i].reply_received
    /\ ledger[i].reply_message_id # NoId
    /\ lastOp'.op = "mark_reply_received"
    /\ lastOp'.message_id = ledger[i].message_id
    /\ lastOp'.reply_message_id = ledger[i].reply_message_id

\* The step is a call mark_reply_received(row i, r2) where row i already
\* stores a different reply identifier r1
RemarkOther(i) ==
    /\ ledger[i].reply_received
    /\ ledger[i].reply_message_id # NoId
    /\ lastOp'.op = "mark_reply_received"
    /\ lastOp'.message_id = ledger[i].message_id
    /\ lastOp'.reply_message_id \notin {NoId, ledger[i].reply_message_id}
    /\ <<ledger, lastOp>>' # <<ledger, lastOp>>

\* C1: a second mark_reply_received(id, r) with the reply identifier the row
\* already stores succeeds and leaves (reply_received, reply_message_id,
\* reply_received_at) of the row as the first call left them.
C1_SecondMarkIsNoOp ==
    [][\A i \in DOMAIN ledger :
          RemarkSame(i) =>
              /\ lastOp'.ok
              /\ ReplyState(ledger'[i]) = ReplyState(ledger[i])]_vars

\* C2: mark_reply_received(id, r2) on a row that already stores r1 # r2 is
\* rejected (reports failure) and the row keeps reply_message_id = r1.
C2_ConflictRejected ==
    [][\A i \in DOMAIN ledger :
          RemarkOther(i) =>
              /\ ~lastOp'.ok
              /\ ledger'[i].reply_message_id = ledger[i].reply_message_id]_vars

\* C5: reply_received is monotonic: a row whose flag is true keeps it true in
\* every later state, so the flag of a row turns from false to true at most
\* once.
C5_ReplyReceivedMonotonic ==
    [][\A i \in DOMAIN ledger :
          ledger[i].reply_received =>
              /\ i \in DOMAIN ledger'
              /\ ledger'[i].reply_received]_vars

\* C5 witness: a row that was marked replied with a reply identifier has been
\* marked again, this time without one, and is still replied
C5_Witness ==
    \E i \in DOMAIN ledger :
        /\ ledger[i].reply_received
        /\ ledger[i].reply_message_id # NoId
        /\ lastOp = [op |-> "mark_reply_received",
                     message_id |-> ledger[i].message_id,
                     reply_message_id |-> NoId, ok |-> TRUE]

----------------------------------------------------------------------------
(* Claims about the poll cycle, under Spec *)

\* Log entries of the current cycle
CycleEntries(log) == {k \in DOMAIN log : log[k].cycle = cycle}

\* The row with a message_id (rows keep their message_id and category)
RowOf(message_id) == get_sent_email_by_message_id(ledger, message_id)

\* C3: a poll cycle that fetched the mailbox exactly as the cycle before it
\* did (no row was added in between: no action of Spec adds one) has fired
\* no requester notification and no registry update when it ends.
C3_SecondRunSilent ==
    (pc = "idle" /\ cycle >= 2 /\ box = prevBox) =>
        /\ CycleEntries(notifications) = {}
        /\ CycleEntries(registry) = {}

\* C4: over all poll cycles, one inbound message (the same Message-ID and
\* headers, however often it is fetched) causes at most one requester
\* notification.
C4_AtMostOneNotification ==
    \A j, k \in DOMAIN notifications :
        notifications[j].reply = notifications[k].reply => j = k

\* C6: within one poll cycle, the replies returned by the fetch never
\* correlate one inbound Message-ID to two different ledger rows.
C6_OneRowPerInboundId ==
    \A i, j \in DOMAIN corr :
        (/\ corr[i].accepted
         /\ corr[j].accepted
         /\ corr[i].reply.message_id # NoId
         /\ corr[i].reply.message_id = corr[j].reply.message_id)
        => corr[i].matched_message_id = corr[j].matched_message_id

\* When the cycle fetched, the pending rows were exactly one per category,
\* all letters of the campaign with this code
OnePendingRowPerCategory(code) ==
    /\ \A t \in EmailType :
          Cardinality({id \in pendingAtFetch : RowOf(id).email_type = t}) = 1
    /\ \A id \in pendingAtFetch : RowOf(id).subject_code = code

\* C7: with one pending row per category, all of campaign ML-ABCDE, a reply
\* whose subject is "Re: [ML-ABCDE] Настройка роуминга" is correlated to the
\* roaming row.
C7_RoamingSubjectToRoamingRow ==
    \A i \in DOMAIN corr :
        (/\ corr[i].reply.subject = SubjectRoaming
         /\ OnePendingRowPerCategory("ML-ABCDE"))
        => /\ corr[i].accepted
           /\ RowOf(corr[i].matched_message_id).email_type = "roaming"

\* The candidate has no tracking code in its subject and its In-Reply-To is
\* the Message-ID of a ledger row of a campaign with several categories
RepliesToRow(d) ==
    /\ extract_tracking_code(d.reply.subject) = NoCode
    /\ d.reply.in_reply_to # NoId
    /\ RowOf(d.reply.in_reply_to) # NoRow
    /\ \E i \in DOMAIN ledger :
          /\ ledger[i].email_type # RowOf(d.reply.in_reply_to).email_type
          /\ ledger[i].subject_code = RowOf(d.reply.in_reply_to).subject_code

\* Registry updates the current cycle made for a reply
UpdatesFor(reply) ==
    {k \in CycleEntries(registry) : registry[k].reply = reply}

\* C8 as stated: a reply with no tracking code in its subject whose
\* In-Reply-To is a row's Message-ID is matched by the in-reply-to step and
\* the cycle makes exactly one registry update, for that row's category.
C8_ExactlyOneRegistryUpdate ==
    pc = "idle" =>
        \A i \in DOMAIN corr :
            RepliesToRow(corr[i]) =>
                /\ corr[i].step = "in_reply_to"
                /\ Cardinality(UpdatesFor(corr[i].reply)) = 1
                /\ \A k \in UpdatesFor(corr[i].reply) :
                      /\ registry[k].row = corr[i].reply.in_reply_to
                      /\ registry[k].email_type =
                            RowOf(corr[i].reply.in_reply_to).email_type

\* C8 amended: if moreover the reply was not processed before and the row was
\* pending when the cycle fetched, the reply is matched by the in-reply-to
\* step; the cycle makes exactly one registry update for it when the row has
\* a sheet_id and no earlier reply of the batch took the row, none otherwise;
\* no update for the reply names another row or category.
C8_RegistryUpdateForRepliedRow ==
    pc = "idle" =>
        \A i \in DOMAIN corr :
            (/\ RepliesToRow(corr[i])
             /\ corr[i].step # "processed"
             /\ corr[i].reply.in_reply_to \in pendingAtFetch)
            => /\ corr[i].step = "in_reply_to"
               /\ corr[i].matched_message_id = corr[i].reply.in_reply_to
               /\ Cardinality(UpdatesFor(corr[i].reply)) =
                     IF /\ \E j \in DOMAIN corr :
                              corr[j].reply = corr[i].reply /\ corr[j].accepted
                        /\ RowOf(corr[i].reply.in_reply_to).sheet_id # NoSheet
                     THEN 1 ELSE 0
               /\ \A k \in UpdatesFor(corr[i].reply) :
                     /\ registry[k].row = corr[i].reply.in_reply_to
                     /\ registry[k].email_type =
                           RowOf(corr[i].reply.in_reply_to).email_type

\* C8 witness: a finished cycle matched such a reply, whose References name
\* another pending row, by In-Reply-To and updated the registry for it
C8_Witness ==
    /\ pc = "idle"
    /\ \E i \in DOMAIN corr :
          /\ RepliesToRow(corr[i])
          /\ corr[i].accepted
          /\ corr[i].step = "in_reply_to"
          /\ corr[i].reply.references # <<>>
          /\ UpdatesFor(corr[i].reply) # {}

----------------------------------------------------------------------------
(* Campaign: send_supplier_registration_emails, email_service.py *)

\* create_email_1_sb_check .. create_email_4_documents
EmailMessage(email_type, tracking_code, contact_email) ==
    [to |-> ToOf(email_type, contact_email),
     cc |-> CcOf(email_type),
     subject_code |-> tracking_code,
     email_type |-> email_type,
     message_id |-> NoId]

\* send_email: the message object afterwards, the result, and what was handed
\* to SMTP.  In test mode the recipients are replaced on the message object
\* itself; original_to and original_cc are only logged.
send_email(email, smtp_ok) ==
    IF ~smtpConfigured
    THEN [email |-> email, success |-> FALSE, wire |-> <<>>]
    ELSE LET redirected == IF EMAIL_TEST_MODE
                           THEN [email EXCEPT !.to = <<TEST_EMAIL>>,
                                              !.cc = <<>>]
                           ELSE email
         IN  [email |-> redirected,
              success |-> smtp_ok,
              wire |-> <<[message_id |-> redirected.message_id,
                          to |-> redirected.to,
                          cc |-> redirected.cc,
                          all_recipients |-> redirected.to \o redirected.cc,
                          subject_code |-> redirected.subject_code,
                          delivered |-> smtp_ok]>>]

\* generate_message_id: a fresh identifier
generate_message_id(uid) == uid

\* send_and_save, on the state st of the running campaign
send_and_save(st, email_type, smtp_ok) ==
    LET message_id == generate_message_id(st.uid)
        created == EmailMessage(email_type, st.tracking_code,
                                st.contact_email)
        sent == send_email([created EXCEPT !.message_id = message_id],
                           smtp_ok)
        recipient == IF sent.email.to # <<>> THEN sent.email.to[1] ELSE ""
        saved == save_sent_email(st.rows, message_id, st.tracking_code,
                                 email_type, recipient, sent.email.cc,
                                 sent.email.subject_code,
                                 st.telegram_user_id, Sheet)
    IN  [st EXCEPT
           !.uid = @ + 1,
           !.rows = IF st.telegram_user_id # NoUser THEN saved.rows ELSE @,
           !.wire = @ \o sent.wire,
           !.saveCalls =
               IF st.telegram_user_id # NoUser
               THEN Append(@, [message_id |-> message_id,
                               tracking_code |-> st.tracking_code,
                               email_type |-> email_type,
                               recipient |-> recipient,
                               cc_recipients |-> sent.email.cc,
                               ok |-> saved.ok])
               ELSE @,
           !.attempts = Append(@, [message_id |-> message_id,
                                   email_type |-> email_type,
                                   to |-> created.to,
                                   cc |-> created.cc,
                                   subject_code |-> created.subject_code,
                                   success |-> sent.success])]

\* The result of the letter of one category, False when it was not attempted
ResultOf(attempts, email_type) ==
    \E i \in DOMAIN attempts :
        attempts[i].email_type = email_type /\ attempts[i].success

\* send_supplier_registration_emails: three letters, and the documents letter
\* when the supplier has a contact e-mail and documents were downloaded
SendCampaign ==
    /\ Len(campaigns) < MaxCampaigns
    /\ \E telegram_user_id \in {NoUser, User},
          tracking_code \in TrackingCodes,
          contact_email \in {"", ContactEmail},
          downloaded \in BOOLEAN,
          smtp \in [EmailType -> BOOLEAN] :
          LET st0 == [uid |-> nextUid, rows |-> ledger, wire |-> <<>>,
                      saveCalls |-> <<>>, attempts |-> <<>>,
                      tracking_code |-> tracking_code,
                      contact_email |-> contact_email,
                      telegram_user_id |-> telegram_user_id]
              st1 == send_and_save(st0, "sb_check", smtp["sb_check"])
              st2 == send_and_save(st1, "docsinbox", smtp["docsinbox"])
              st3 == send_and_save(st2, "roaming", smtp["roaming"])
              st4 == IF contact_email # "" /\ downloaded
                     THEN send_and_save(st3, "documents", smtp["documents"])
                     ELSE st3
          IN  /\ ledger' = st4.rows
              /\ nextUid' = st4.uid
              /\ wire' = wire \o st4.wire
              /\ saveCalls' = saveCalls \o st4.saveCalls
              /\ campaigns' = Append(campaigns,
                    [tracking_code |-> tracking_code,
                     telegram_user_id |-> telegram_user_id,
                     attempts |-> st4.attempts,
                     results |->
                        [tracking_code |-> tracking_code,
                         email_1_sb |-> ResultOf(st4.attempts, "sb_check"),
                         email_2_docsinbox |->
                             ResultOf(st4.attempts, "docsinbox"),
                         email_3_roaming |-> ResultOf(st4.attempts, "roaming"),
                         email_4_documents |->
                             ResultOf(st4.attempts, "documents")]])
    /\ UNCHANGED <<now, lastOp, pollVars, configVars>>

CampaignInit ==
    /\ ledger = <<>>
    /\ EMAIL_TEST_MODE \in BOOLEAN
    /\ smtpConfigured \in BOOLEAN
    /\ InitRest

CampaignNext == SendCampaign

CampaignSpec == CampaignInit /\ [][CampaignNext]_vars

----------------------------------------------------------------------------
(* Claims about the campaign, under CampaignSpec *)

\* Every letter a finished campaign attempted to send
Attempted ==
    {<<c, a>> \in (DOMAIN campaigns) \X (1..4) :
        a \in DOMAIN campaigns[c].attempts}
AttemptOf(ca) == campaigns[ca[1]].attempts[ca[2]]

\* C9: in test mode a letter goes only to the diagnostic recipient, without
\* CC, while what is recorded for it in the ledger (the save request and the
\* stored row) holds the intended recipient and CC list unmodified.
C9_SandboxKeepsOriginalRecipients ==
    EMAIL_TEST_MODE =>
        \A ca \in Attempted :
            /\ \A w \in DOMAIN wire :
                  wire[w].message_id = AttemptOf(ca).message_id =>
                      wire[w].all_recipients = <<TEST_EMAIL>>
            /\ \A k \in DOMAIN saveCalls :
                  saveCalls[k].message_id = AttemptOf(ca).message_id =>
                      /\ saveCalls[k].recipient = AttemptOf(ca).to[1]
                      /\ saveCalls[k].cc_recipients = AttemptOf(ca).cc
            /\ \A i \in RowsWith(ledger, AttemptOf(ca).message_id) :
                  /\ ledger[i].recipient = AttemptOf(ca).to[1]
                  /\ ledger[i].cc_recipients = AttemptOf(ca).cc

\* C10: once send_supplier_registration_emails has returned, every letter it
\* attempted to send, sent or not, has exactly one ledger row with the
\* letter's Message-ID and the campaign's tracking code.
C10_EveryAttemptHasOneRow ==
    \A ca \in Attempted :
        /\ Cardinality(RowsWith(ledger, AttemptOf(ca).message_id)) = 1
        /\ \A i \in RowsWith(ledger, AttemptOf(ca).message_id) :
              /\ RowTrackingCode(ledger[i]) = campaigns[ca[1]].tracking_code
              /\ ledger[i].subject_code = campaigns[ca[1]].tracking_code

----------------------------------------------------------------------------
(* Claims about save_sent_email, under LedgerSpec *)

\* The step is a call save_sent_email(message_id, ...) for a message_id the
\* table already holds
SaveOfExisting ==
    /\ lastOp'.op = "save_sent_email"
    /\ now' = now
    /\ RowsWith(ledger, lastOp'.message_id) # {}

----------------------------------------------------------------------------
(* Text functions: email_service.py, reply_processor.py                    *)
(*                                                                         *)
(* A text is a sequence of symbols.  A symbol is either a character the    *)
(* function looks at (a separator, a bracket, a line break) or a run of    *)
(* characters it treats alike, e.g. "sb_check" or the uuid's hex digits.   *)

MaxKeyLen == 2

\* Python's None as a function result or argument.  The conditions that read
\* it (`if not full_text`, `if match`) do not tell it from the empty text.
None == <<>>

\* Index of the first symbol of s that is in chars, 0 if there is none
RECURSIVE FindFirst(_, _, _)
FindFirst(s, chars, i) ==
    IF i > Len(s) THEN 0
    ELSE IF s[i] \in chars THEN i
    ELSE FindFirst(s, chars, i + 1)

\* str.split(sep): the pieces between the occurrences of sep
RECURSIVE Split(_, _)
Split(s, sep) ==
    LET i == FindFirst(s, {sep}, 1)
    IN  IF i = 0 THEN <<s>>
        ELSE <<SubSeq(s, 1, i - 1)>> \o Split(SubSeq(s, i + 1, Len(s)), sep)

\* str.strip(chars): s without its leading and trailing symbols of chars
RECURSIVE StripChars(_, _)
StripChars(s, chars) ==
    IF s = <<>> THEN s
    ELSE IF s[1] \in chars THEN StripChars(Tail(s), chars)
    ELSE IF s[Len(s)] \in chars
         THEN StripChars(SubSeq(s, 1, Len(s) - 1), chars)
    ELSE s

\* uuid.uuid4().hex[:12]: hexadecimal digits only
UniqueIds == {<<"0f3a9c1d2e4b">>, <<"ffffffffffff">>}

\* The email_type strings the campaign passes to generate_message_id
Categories == {<<t>> : t \in EmailType}

\* supplier_inn strings: digits, and the characters the parser splits on or
\* strips
KeySymbols == {"7", ".", "@", ">"}
RECURSIVE SeqsUpTo(_, _)
SeqsUpTo(S, n) ==
    IF n = 0 THEN {<<>>}
    ELSE LET shorter == SeqsUpTo(S, n - 1)
         IN  shorter \cup {Append(s, x) : s \in shorter, x \in S}
Keys == SeqsUpTo(KeySymbols, MaxKeyLen)

\* generate_message_id, the f-string:
\* "<{unique_id}.{email_type}.{supplier_inn}@mnogolososya.ru>"
message_id_format(unique_id, email_type, supplier_inn) ==
    <<"<">> \o unique_id \o <<".">> \o email_type \o <<".">> \o supplier_inn
        \o <<"@", "mnogolososya", ".", "ru", ">">>

\* Mutant of parse_message_id: the domain is not cut off before splitting.
parse_message_id_keep_domain(message_id) ==
    LET clean_id == StripChars(message_id, {"<", ">"})
        parts == Split(clean_id, ".")
    IN  IF Len(parts) >= 3 THEN <<parts[2], parts[3]>> ELSE None

\* parse_message_id
parse_message_id(message_id) ==
    LET clean_id == StripChars(message_id, {"<", ">"})
        parts == Split(Split(clean_id, "@")[1], ".")
    IN  IF Len(parts) >= 3 THEN <<parts[2], parts[3]>> ELSE None

MaxSubjectParts == 3

\* The five characters random.choices draws from A-Z0-9, as one symbol
CodeBodies == {"ABCDE", "00000"}

\* generate_tracking_code: "ML-" followed by the five characters
generate_tracking_code == {<<"ML-", body>> : body \in CodeBodies}

\* "[<code>]"
Bracketed(code) == <<"[">> \o code \o <<"]">>

\* Pieces a subject line is made of: bracketed codes, a bracketed code in
\* lower case, a code whose bracket is not closed, and words
SubjectPieces ==
    {Bracketed(code) : code \in generate_tracking_code}
        \cup {<<"[", "ML-", "abcde", "]">>, <<"[", "ML-", "ABCDE">>,
              <<"Re: ">>, <<"Nastroyka rouminga">>}

RECURSIVE Flatten(_)
Flatten(pieces) ==
    IF pieces = <<>> THEN <<>> ELSE Head(pieces) \o Flatten(Tail(pieces))

Subjects == {Flatten(p) : p \in SeqsUpTo(SubjectPieces, MaxSubjectParts)}

\* The pattern \[ML-([A-Z0-9]{5})\] matches at position i of the subject
CodeMatchAt(subject, i) ==
    /\ i + 3 <= Len(subject)
    /\ subject[i] = "["
    /\ subject[i + 1] = "ML-"
    /\ subject[i + 2] \in CodeBodies
    /\ subject[i + 3] = "]"

\* Mutant of extract_tracking_code_re: the last match is returned.
extract_tracking_code_last(subject) ==
    LET hits == {i \in 1..Len(subject) : CodeMatchAt(subject, i)}
    IN  IF hits = {} THEN None
        ELSE LET i == CHOOSE h \in hits : \A g \in hits : g <= h
             IN  <<"ML-", subject[i + 2]>>

\* extract_tracking_code on the text of the subject: re.search returns the
\* leftmost match
extract_tracking_code_re(subject) ==
    LET hits == {i \in 1..Len(subject) : CodeMatchAt(subject, i)}
    IN  IF hits = {} THEN None
        ELSE LET i == CHOOSE h \in hits : \A g \in hits : h <= g
             IN  <<"ML-", subject[i + 2]>>

MaxLines == 4

\* Whitespace str.strip() removes
Whitespace == {" ", "\n"}

\* The fixed text returned instead of an empty result, "(текст отсутствует)"
Placeholder == <<"(tekst otsutstvuet)">>

\* Line beginnings that match one of quote_markers (re.match anchors the
\* pattern at the start of the stripped line)
QuoteMarkers ==
    {">", "On Mon, Jan 1 wrote:", "01.02.2024 <a@b.c>", "--- Original",
     "___", "From: a@b.c", "Otpravleno:", "Sent:"}

\* '\n'.join(lines)
RECURSIVE Join(_)
Join(lines) ==
    IF lines = <<>> THEN <<>>
    ELSE IF Len(lines) = 1 THEN lines[1]
    ELSE lines[1] \o <<"\n">> \o Join(Tail(lines))

\* line.strip() is empty
IsBlank(line) == StripChars(line, Whitespace) = <<>>

\* The stripped line matches one of quote_markers
StartsQuote(line) ==
    LET stripped == StripChars(line, Whitespace)
    IN  stripped # <<>> /\ stripped[1] \in QuoteMarkers

\* The loop over lines: leading blank lines are skipped, a marker line sets
\* in_quote for good, other lines are appended as they are
RECURSIVE ScanLines(_, _, _)
ScanLines(lines, reply_lines, in_quote) ==
    IF lines = <<>> THEN reply_lines
    ELSE LET line == Head(lines)
             quoted == in_quote \/ StartsQuote(line)
         IN  IF reply_lines = <<>> /\ IsBlank(line)
             THEN ScanLines(Tail(lines), reply_lines, in_quote)
             ELSE IF quoted THEN ScanLines(Tail(lines), reply_lines, TRUE)
             ELSE ScanLines(Tail(lines), Append(reply_lines, line), FALSE)

\* while reply_lines and not reply_lines[-1].strip(): reply_lines.pop()
RECURSIVE PopBlank(_)
PopBlank(reply_lines) ==
    IF reply_lines # <<>> /\ IsBlank(reply_lines[Len(reply_lines)])
    THEN PopBlank(SubSeq(reply_lines, 1, Len(reply_lines) - 1))
    ELSE reply_lines

\* Mutant loop: only the lines that match a marker are dropped
RECURSIVE ScanLinesNoSticky(_, _)
ScanLinesNoSticky(lines, reply_lines) ==
    IF lines = <<>> THEN reply_lines
    ELSE LET line == Head(lines)
         IN  IF (reply_lines = <<>> /\ IsBlank(line)) \/ StartsQuote(line)
             THEN ScanLinesNoSticky(Tail(lines), reply_lines)
             ELSE ScanLinesNoSticky(Tail(lines), Append(reply_lines, line))

\* Mutant of extract_reply_text: in_quote is not kept after the marker line.
extract_reply_text_marked_only(full_text) ==
    IF full_text = None THEN Placeholder
    ELSE LET reply_lines == PopBlank(ScanLinesNoSticky(
                                Split(full_text, "\n"), <<>>))
             result == StripChars(Join(reply_lines), Whitespace)
         IN  IF result # <<>> THEN result ELSE Placeholder

\* Mutant loop: the stripped line is appended
RECURSIVE ScanLinesStripped(_, _, _)
ScanLinesStripped(lines, reply_lines, in_quote) ==
    IF lines = <<>> THEN reply_lines
    ELSE LET line == Head(lines)
             quoted == in_quote \/ StartsQuote(line)
         IN  IF reply_lines = <<>> /\ IsBlank(line)
             THEN ScanLinesStripped(Tail(lines), reply_lines, in_quote)
             ELSE IF quoted
             THEN ScanLinesStripped(Tail(lines), reply_lines, TRUE)
             ELSE ScanLinesStripped(Tail(lines),
                      Append(reply_lines, StripChars(line, Whitespace)),
                      FALSE)

\* Mutant of extract_reply_text: every kept line loses its own leading and
\* trailing whitespace.
extract_reply_text_strip_lines(full_text) ==
    IF full_text = None THEN Placeholder
    ELSE LET reply_lines == PopBlank(ScanLinesStripped(
                                Split(full_text, "\n"), <<>>, FALSE))
             result == StripChars(Join(reply_lines), Whitespace)
         IN  IF result # <<>> THEN result ELSE Placeholder

\* Mutant of extract_reply_text: the result is returned as it is, also when
\* it is empty.
extract_reply_text_no_placeholder(full_text) ==
    IF full_text = None THEN <<>>
    ELSE LET reply_lines == PopBlank(ScanLines(Split(full_text, "\n"), <<>>,
                                               FALSE))
         IN  StripChars(Join(reply_lines), Whitespace)

\* extract_reply_text
extract_reply_text(full_text) ==
    IF full_text = None THEN Placeholder
    ELSE LET reply_lines == PopBlank(ScanLines(Split(full_text, "\n"), <<>>,
                                               FALSE))
             result == StripChars(Join(reply_lines), Whitespace)
         IN  IF result # <<>> THEN result ELSE Placeholder

\* Lines a body is made of: empty, blank, text with and without surrounding
\* spaces, text with a quote character inside, and lines that begin a quote
BodyLines ==
    {<<>>, <<" ">>, <<"Thanks!">>, <<" ", "Thanks!", " ">>,
     <<"a", ">", "b">>, <<"On Mon, Jan 1 wrote:">>,
     <<">", " ", "original text">>, <<" ", "Sent:", " ", "Monday">>}

\* Bodies: every text of up to MaxLines lines, the empty text (or None)
\* among them
Bodies == {Join(ls) : ls \in SeqsUpTo(BodyLines, MaxLines)}

----------------------------------------------------------------------------
(* The text functions called directly *)

\* The arguments of one call, chosen before the call is made
TextInit ==
    /\ \/ \E unique_id \in UniqueIds, email_type \in Categories,
             supplier_inn \in Keys :
             lastOp = [op |-> "args", fn |-> "generate_message_id",
                       unique_id |-> unique_id, email_type |-> email_type,
                       supplier_inn |-> supplier_inn]
       \/ \E code \in generate_tracking_code, subject \in Subjects :
             lastOp = [op |-> "args", fn |-> "extract_tracking_code",
                       code |-> code, subject |-> subject]
       \/ \E full_text \in Bodies :
             lastOp = [op |-> "args", fn |-> "extract_reply_text",
                       full_text |-> full_text]
    /\ ledger = <<>>
    /\ EMAIL_TEST_MODE = TRUE
    /\ smtpConfigured = TRUE
    /\ InitIdle

\* generate_message_id(email_type, supplier_inn)
CallGenerateMessageId ==
    /\ lastOp.op = "args"
    /\ lastOp.fn = "generate_message_id"
    /\ lastOp' = [op |-> "generate_message_id",
                  email_type |-> lastOp.email_type,
                  supplier_inn |-> lastOp.supplier_inn,
                  result |-> message_id_format(lastOp.unique_id,
                                               lastOp.email_type,
                                               lastOp.supplier_inn)]
    /\ UNCHANGED <<ledger, now, pollVars, campaignVars, configVars>>

\* parse_message_id applied to what generate_message_id returned
CallParseMessageId ==
    /\ lastOp.op = "generate_message_id"
    /\ lastOp' = [op |-> "parse_message_id",
                  email_type |-> lastOp.email_type,
                  supplier_inn |-> lastOp.supplier_inn,
                  message_id |-> lastOp.result,
                  result |-> parse_message_id(lastOp.result)]
    /\ UNCHANGED <<ledger, now, pollVars, campaignVars, configVars>>

\* extract_tracking_code(subject)
CallExtractTrackingCode ==
    /\ lastOp.op = "args"
    /\ lastOp.fn = "extract_tracking_code"
    /\ lastOp' = [op |-> "extract_tracking_code",
                  code |-> lastOp.code,
                  subject |-> lastOp.subject,
                  result |-> extract_tracking_code_re(lastOp.subject)]
    /\ UNCHANGED <<ledger, now, pollVars, campaignVars, configVars>>

\* extract_reply_text(full_text)
CallExtractReplyText ==
    /\ lastOp.op = "args"
    /\ lastOp.fn = "extract_reply_text"
    /\ lastOp' = [op |-> "extract_reply_text",
                  full_text |-> lastOp.full_text,
                  result |-> extract_reply_text(lastOp.full_text)]
    /\ UNCHANGED <<ledger, now, pollVars, campaignVars, configVars>>

TextNext ==
    \/ CallGenerateMessageId
    \/ CallParseMessageId
    \/ CallExtractTrackingCode
    \/ CallExtractReplyText

TextSpec == TextInit /\ [][TextNext]_vars

----------------------------------------------------------------------------
(* Claims about the text functions, under TextSpec *)

\* The part of a key before its first "." or "@"
KeyPrefix(key) ==
    LET i == FindFirst(key, {".", "@"}, 1)
    IN  IF i = 0 THEN key ELSE SubSeq(key, 1, i - 1)

\* C12 as stated: for every category and every key,
\* parse_message_id(generate_message_id(category, key)) = (category, key).
C12_RoundTripEveryKey ==
    lastOp.op = "parse_message_id"
        => lastOp.result = <<lastOp.email_type, lastOp.supplier_inn>>

\* C12: for every category and every key,
\* parse_message_id(generate_message_id(category, key)) returns the category
\* and the part of the key before its first "." or "@"; it is (category,
\* key) exactly when the key contains neither character.
C12_RoundTripPlainKey ==
    lastOp.op = "parse_message_id"
        => /\ lastOp.result
                  = <<lastOp.email_type, KeyPrefix(lastOp.supplier_inn)>>
           /\ (lastOp.result = <<lastOp.email_type, lastOp.supplier_inn>>)
                  <=> (\A i \in DOMAIN lastOp.supplier_inn :
                          lastOp.supplier_inn[i] \notin {".", "@"})

\* C12 witness: the identifier of a roaming letter for the key "77" has
\* been generated and parsed back to ("roaming", "77")
C12_Witness ==
    /\ lastOp.op = "parse_message_id"
    /\ lastOp.supplier_inn = <<"7", "7">>
    /\ lastOp.result = <<<<"roaming">>, <<"7", "7">>>>

\* The literal lit occurs in the subject at position i
OccursAt(subject, lit, i) ==
    /\ i + Len(lit) - 1 <= Len(subject)
    /\ SubSeq(subject, i, i + Len(lit) - 1) = lit

\* Positions at which the literal occurs in the subject
Occurrences(subject, lit) ==
    {i \in 1..Len(subject) : OccursAt(subject, lit, i)}

\* C13 as stated: for every generated code and every subject that contains
\* "[<code>]", extract_tracking_code(subject) returns that code.
C13_ExtractReturnsContainedCode ==
    (/\ lastOp.op = "extract_tracking_code"
     /\ Occurrences(lastOp.subject, Bracketed(lastOp.code)) # {})
        => lastOp.result = lastOp.code

\* C13: for every generated code and every subject that contains
\* "[<code>]", extract_tracking_code(subject) returns the generated code
\* whose bracketed literal occurs leftmost in the subject; it returns <code>
\* exactly when no other bracketed code stands before "[<code>]".
C13_ExtractReturnsLeftmostCode ==
    (/\ lastOp.op = "extract_tracking_code"
     /\ Occurrences(lastOp.subject, Bracketed(lastOp.code)) # {})
        => /\ lastOp.result \in generate_tracking_code
           /\ \E i \in Occurrences(lastOp.subject, Bracketed(lastOp.result)) :
                 \A c \in generate_tracking_code :
                     \A j \in Occurrences(lastOp.subject, Bracketed(c)) :
                         i <= j
           /\ (lastOp.result = lastOp.code)
                 <=> \E i \in Occurrences(lastOp.subject,
                                          Bracketed(lastOp.code)) :
                        \A c \in generate_tracking_code \ {lastOp.code} :
                            \A j \in Occurrences(lastOp.subject,
                                                 Bracketed(c)) : i < j

\* C13 witness: the code ML-ABCDE was extracted from a subject that holds
\* "[ML-ABCDE]" behind "Re: " and before another bracketed code
C13_Witness ==
    /\ lastOp.op = "extract_tracking_code"
    /\ lastOp.code = <<"ML-", "ABCDE">>
    /\ lastOp.subject = <<"Re: ", "[", "ML-", "ABCDE", "]",
                          "[", "ML-", "00000", "]">>
    /\ lastOp.result = <<"ML-", "ABCDE">>

\* The lines of the body
LinesOf(full_text) == Split(full_text, "\n")

\* Index of the first line that matches a quote-boundary pattern, 0 if no
\* line does
RECURSIVE FirstBoundary(_, _)
FirstBoundary(lines, i) ==
    IF i > Len(lines) THEN 0
    ELSE IF StartsQuote(lines[i]) THEN i
    ELSE FirstBoundary(lines, i + 1)

\* The lines that precede the first boundary; all lines if there is none
LinesBefore(full_text) ==
    LET lines == LinesOf(full_text)
        b == FirstBoundary(lines, 1)
    IN  IF b = 0 THEN lines ELSE SubSeq(lines, 1, b - 1)

\* The lines without the blank lines at their beginning and end
TrimBlankLines(lines) ==
    LET keep == {i \in DOMAIN lines : ~IsBlank(lines[i])}
    IN  IF keep = {} THEN <<>>
        ELSE LET lo == CHOOSE i \in keep : \A j \in keep : i <= j
                 hi == CHOOSE i \in keep : \A j \in keep : j <= i
             IN  SubSeq(lines, lo, hi)

\* The body of the example: "Thanks!\n\nOn Mon, Jan 1 wrote:\n> original text"
ExampleBody ==
    <<"Thanks!", "\n", "\n", "On Mon, Jan 1 wrote:", "\n",
      ">", " ", "original text">>

\* C15 as stated: the result of extract_reply_text is the text of the lines
\* that precede the first quote-boundary line, with leading and trailing
\* blank lines trimmed.
C15_ResultIsLinesBeforeBoundary ==
    lastOp.op = "extract_reply_text"
        => lastOp.result = Join(TrimBlankLines(LinesBefore(lastOp.full_text)))

\* C15: extract_reply_text discards the first quote-boundary line and every
\* line after it.  The result is the text of the lines that precede the
\* boundary with leading and trailing blank lines and the whitespace around
\* the remaining text trimmed, or the placeholder when nothing remains; for
\* the example body it is "Thanks!".
C15_ResultIsTrimmedLinesBeforeBoundary ==
    lastOp.op = "extract_reply_text"
        => LET kept == StripChars(
                           Join(TrimBlankLines(LinesBefore(lastOp.full_text))),
                           Whitespace)
           IN  /\ lastOp.result = IF kept = <<>> THEN Placeholder ELSE kept
               /\ lastOp.full_text = ExampleBody
                     => lastOp.result = <<"Thanks!">>

\* C15 witness: the example body has been reduced to "Thanks!"
C15_Witness ==
    /\ lastOp.op = "extract_reply_text"
    /\ lastOp.full_text = ExampleBody
    /\ lastOp.result = <<"Thanks!">>

\* No line of the body matches a quote-boundary pattern
NoBoundary(full_text) == FirstBoundary(LinesOf(full_text), 1) = 0

\* C16 as stated: for every non-empty body in which no line matches a
\* quote-boundary pattern, extract_reply_text returns the body unchanged.
C16_UnquotedBodyUnchanged ==
    (/\ lastOp.op = "extract_reply_text"
     /\ lastOp.full_text # <<>>
     /\ NoBoundary(lastOp.full_text))
        => lastOp.result = lastOp.full_text

\* C16: for every non-empty body in which no line matches a quote-boundary
\* pattern, extract_reply_text returns the body without its leading and
\* trailing whitespace, blank lines included, and the placeholder if the
\* body is blank; the body is returned unchanged exactly when it neither
\* starts nor ends with whitespace.
C16_UnquotedBodyStripped ==
    (/\ lastOp.op = "extract_reply_text"
     /\ lastOp.full_text # <<>>
     /\ NoBoundary(lastOp.full_text))
        => LET body == lastOp.full_text
               stripped == StripChars(body, Whitespace)
           IN  /\ lastOp.result
                     = IF stripped = <<>> THEN Placeholder ELSE stripped
               /\ (lastOp.result = body)
                     <=> (/\ body[1] \notin Whitespace
                          /\ body[Len(body)] \notin Whitespace)

\* C16 witness: a body of three lines without a boundary, the middle line
\* with spaces around its text and a quote character inside, came back
\* unchanged
C16_Witness ==
    /\ lastOp.op = "extract_reply_text"
    /\ lastOp.full_text = <<"Thanks!", "\n", " ", "Thanks!", " ", "\n",
                            "a", ">", "b">>
    /\ lastOp.result = lastOp.full_text

\* Every line that precedes the first boundary is blank
NothingBeforeBoundary(full_text) ==
    \A i \in DOMAIN LinesBefore(full_text) :
        IsBlank(LinesBefore(full_text)[i])

\* C17: extract_reply_text never returns the empty text; for an empty body,
\* a blank body and a body with only quoted content it returns the
\* placeholder.
C17_NeverEmpty ==
    lastOp.op = "extract_reply_text"
        => /\ lastOp.result # <<>>
           /\ NothingBeforeBoundary(lastOp.full_text)
                 => lastOp.result = Placeholder

\* C17 witness: a body of a blank line followed by quoted content only has
\* been answered with the placeholder
C17_Witness ==
    /\ lastOp.op = "extract_reply_text"
    /\ lastOp.full_text = <<" ", "\n", ">", " ", "original text">>
    /\ lastOp.result = Placeholder

----------------------------------------------------------------------------
(* Claims about the campaign's tracking code, under CampaignSpec *)

\* Message-IDs of the letters campaign c attempted
CampaignMessageIds(c) ==
    {campaigns[c].attempts[a].message_id : a \in DOMAIN campaigns[c].attempts}

\* C14: every message one send_supplier_registration_emails call dispatched
\* has "[<code>]" of the call's single tracking code in its subject, the
\* result returns that code, and every letter the call recorded has a ledger
\* row that stores that code.
C14_OneCodeOnSubjectsResultAndRows ==
    \A c \in DOMAIN campaigns :
        LET code == campaigns[c].tracking_code
        IN  /\ \A w \in DOMAIN wire :
                  wire[w].message_id \in CampaignMessageIds(c)
                      => wire[w].subject_code = code
            /\ campaigns[c].results.tracking_code = code
            /\ \A k \in DOMAIN saveCalls :
                  saveCalls[k].message_id \in CampaignMessageIds(c)
                      => /\ RowsWith(ledger, saveCalls[k].message_id) # {}
                         /\ \A i \in RowsWith(ledger, saveCalls[k].message_id) :
                               RowTrackingCode(ledger[i]) = code

----------------------------------------------------------------------------
(* Poll cycle with failing collaborators: reply_processor.py               *)
(*                                                                         *)
(* The database, the registry and the Telegram API may fail.  A failure    *)
(* inside get_sent_email_by_message_id or mark_reply_received is caught    *)
(* there and returned as None / False; a failure of the registry call is   *)
(* raised into the loop of process_email_replies; a failure of a Telegram  *)
(* call is caught inside notify_user_about_reply.                          *)

MaxAttachments == 2
MaxFaults == 1

Faults ==
    {"none", "lookup", "mark", "registry", "notify_text", "attachment_send",
     "attachment_fallback"}

\* An inbound message with its parsed attachments
IncomingEmailWithAttachments(m, attachments) ==
    [message_id |-> m.message_id, in_reply_to |-> m.in_reply_to,
     references |-> m.references, subject |-> m.subject,
     attachments |-> attachments]

\* Replies to the first and the second letter, with 0..MaxAttachments
\* attachments, and two messages without In-Reply-To and without a reply
\* marker: one with a References chain, one with a tracking code
InboundWithAttachments ==
    {IncomingEmailWithAttachments(m, n) :
        m \in {IncomingEmail(11, 1, <<>>, SubjectRe),
               IncomingEmail(12, 2, <<>>, SubjectRe),
               IncomingEmail(13, 1, <<2>>, SubjectRe)},
        n \in 0..MaxAttachments}
    \cup {IncomingEmailWithAttachments(m, 0) :
              m \in {IncomingEmail(14, NoId, <<1>>, SubjectNew),
                     IncomingEmail(18, NoId, <<>>, SubjectNewCoded)}}

\* Rows of one campaign, all pending
FaultInit ==
    /\ \E sheet_id \in {NoSheet, Sheet} :
          ledger = CampaignRows(<<"sb_check", "docsinbox", "roaming">>,
                                sheet_id)
    /\ EMAIL_TEST_MODE = TRUE
    /\ smtpConfigured = TRUE
    /\ InitRest

\* A message with attachments is delivered to the mailbox
DeliverWithAttachments ==
    /\ Len(mailbox) < MaxMailbox
    /\ \E m \in InboundWithAttachments : mailbox' = Append(mailbox, m)
    /\ UNCHANGED <<ledgerVars, pc, cycle, box, prevBox, pendingAtFetch, corr,
                   replies, processed_count, marks, registry, notifications,
                   tempFiles, loopLog, runs, jobs,
                   campaignVars, configVars>>

\* notify_user_about_reply for a reply with the given number of attachments.
\* Attachment k is the one whose send_document fails (attachment_send: the
\* notice about it is sent and the loop goes on) or whose notice fails as
\* well (attachment_fallback: the function gives up).  staged are the
\* attachments save_to_temp was called for.
notify_user_about_reply(attachments, fault, k) ==
    IF fault = "notify_text"
    THEN [ok |-> FALSE, text |-> FALSE, staged |-> {}]
    ELSE IF fault = "attachment_fallback" /\ k <= attachments
    THEN [ok |-> FALSE, text |-> TRUE, staged |-> 1..k]
    ELSE [ok |-> TRUE, text |-> TRUE, staged |-> 1..attachments]

\* Temporary files of a reply's staged attachments
StagedFiles(r, staged) ==
    {[cycle |-> cycle, reply |-> r.reply.message_id, attachment |-> a] :
        a \in staged}

\* Mutant of cleanup_after_notify: the files are removed only after a
\* notification that succeeded.
cleanup_after_failed_notify_skipped(files, r, notified) ==
    IF notified.ok THEN files \ StagedFiles(r, notified.staged) ELSE files

\* reply.cleanup_attachments() after notify_user_about_reply returned:
\* every attachment that has a temporary file loses it
cleanup_after_notify(files, r, notified) ==
    files \ StagedFiles(r, notified.staged)

\* Mutant of RemainingAfter: an exception ends the batch.
RemainingAfterAbort(batch, raised) ==
    IF raised THEN <<>> ELSE Tail(batch)

\* `except Exception: ... continue`, and the end of the loop body: the loop
\* goes on with the next reply
RemainingAfter(batch, raised) == Tail(batch)

\* Number of passes so far in which a collaborator failed
FaultsSoFar ==
    Cardinality({i \in DOMAIN loopLog : loopLog[i].fault # "none"})

\* One pass of the loop body of process_email_replies, with at most one
\* collaborator failing in it
ProcessReplyWithFaults ==
    /\ pc = "processing"
    /\ replies # <<>>
    /\ \E fault \in Faults, k \in 1..MaxAttachments :
          LET r == Head(replies)
              original_message_id == OriginalMessageId(r)
              sent_email ==
                  IF fault = "lookup" THEN NoRow
                  ELSE get_sent_email_by_message_id(ledger,
                                                    original_message_id)
              m == IF fault = "mark" THEN [rows |-> ledger, ok |-> FALSE]
                   ELSE mark_reply_received(ledger, original_message_id,
                                            r.reply.message_id, now)
              found == original_message_id # NoId /\ sent_email # NoRow
              raised == /\ found
                        /\ fault = "registry"
                        /\ sent_email.sheet_id # NoSheet
              notified == notify_user_about_reply(r.reply.attachments,
                                                  fault, k)
              completed == found /\ ~raised
          IN  /\ fault # "none" => FaultsSoFar < MaxFaults
              /\ IF fault \in {"attachment_send", "attachment_fallback"}
                 THEN k <= r.reply.attachments
                 ELSE k = 1
              /\ ledger' = IF found THEN m.rows ELSE ledger
              /\ marks' = IF found
                          THEN Append(marks,
                                 [cycle |-> cycle, reply |-> r.reply,
                                  row |-> original_message_id, ok |-> m.ok,
                                  was_replied |-> sent_email.reply_received])
                          ELSE marks
              /\ registry' = IF completed /\ sent_email.sheet_id # NoSheet
                             THEN Append(registry,
                                         RegistryUpdate(sent_email, r))
                             ELSE registry
              /\ notifications' =
                     IF completed /\ notified.text
                     THEN Append(notifications,
                            [cycle |-> cycle, reply |-> r.reply,
                             row |-> original_message_id,
                             email_type |-> sent_email.email_type,
                             telegram_user_id |->
                                 sent_email.telegram_user_id])
                     ELSE notifications
              /\ tempFiles' =
                     IF completed
                     THEN cleanup_after_notify(
                              tempFiles \cup StagedFiles(r, notified.staged),
                              r, notified)
                     ELSE tempFiles
              /\ processed_count' = IF completed THEN processed_count + 1
                                    ELSE processed_count
              /\ loopLog' = Append(loopLog,
                     [cycle |-> cycle, reply |-> r.reply, fault |-> fault,
                      raised |-> raised, completed |-> completed,
                      notified |-> completed /\ notified.ok,
                      staged |-> IF completed THEN notified.staged ELSE {}])
              /\ replies' = RemainingAfter(replies, raised)
    /\ pc' = IF replies' = <<>> THEN "idle" ELSE "processing"
    /\ UNCHANGED <<now, lastOp, mailbox, cycle, box, prevBox, pendingAtFetch,
                   corr, runs, jobs,
                   campaignVars, configVars>>

\* Outcomes of the IMAP session of one fetch: the login succeeds and every
\* command answers; the login or the socket fails; a command after the login
\* raises
Connections == {"ok", "failed", "raised"}

\* _connect: the connection, or None after a login or connection error
_connect(connection) == connection # "failed"

\* _fetch_sync of fetch_replies: no connection gives the empty list
_fetch_sync(inbox, connection) ==
    IF ~_connect(connection) THEN <<>> ELSE fetch_replies(inbox)

\* Mutant of check_email_replies_job: no except clause around the cycle.
check_email_replies_job_no_except(outcome) == outcome

\* check_email_replies_job: an exception of process_email_replies is logged
\* and the job returns
check_email_replies_job(outcome) ==
    IF outcome = "raised" THEN "returned" ELSE "returned"

\* check_email_replies_job up to the loop of process_email_replies, with the
\* outcome of the IMAP session.  A cycle whose fetch raised ends there.
StartJob ==
    /\ pc = "idle"
    /\ cycle < MaxCycles
    /\ \E connection \in Connections :
          LET raised == connection = "raised"
              all_replies == IF raised THEN <<>>
                             ELSE _fetch_sync(mailbox, connection)
              outcome == IF raised THEN "raised" ELSE "returned"
          IN  /\ box' = IF connection = "ok" THEN mailbox ELSE <<>>
              /\ corr' = Correlate(all_replies, ledger)
              /\ replies' = fetch_unprocessed_replies(all_replies, ledger)
              /\ jobs' = Append(jobs,
                     [cycle |-> cycle + 1, connection |-> connection,
                      inbox |-> mailbox, all_replies |-> all_replies,
                      process_email_replies |-> outcome,
                      job |-> check_email_replies_job(outcome)])
    /\ cycle' = cycle + 1
    /\ now' = now + 1
    /\ prevBox' = box
    /\ pendingAtFetch' = OurMessageIds(PendingEmails(ledger))
    /\ processed_count' = 0
    /\ pc' = IF replies' = <<>> THEN "idle" ELSE "processing"
    /\ UNCHANGED <<ledger, lastOp, mailbox, marks, registry, notifications,
                   tempFiles, loopLog, runs, campaignVars, configVars>>

FaultNext ==
    \/ DeliverWithAttachments
    \/ StartJob
    \/ ProcessReplyWithFaults

FaultSpec == FaultInit /\ [][FaultNext]_vars

----------------------------------------------------------------------------
(* Claims about failures in the poll cycle, under FaultSpec *)

\* Passes of the current cycle
CyclePasses == {j \in DOMAIN loopLog : loopLog[j].cycle = cycle}

\* C18: whenever the candidate loop is between two messages or has ended,
\* no attachment staged during a notification attempt, successful or failed,
\* still has its temporary file.
C18_StagedFilesRemoved ==
    /\ tempFiles = {}
    /\ \A j \in DOMAIN loopLog :
          \A a \in loopLog[j].staged :
              [cycle |-> loopLog[j].cycle,
               reply |-> loopLog[j].reply.message_id,
               attachment |-> a] \notin tempFiles

\* C18 witness: a notification staged attachments and then failed, the loop
\* went on to a later message of the batch, and no temporary file is left
C18_Witness ==
    \E i \in CyclePasses, j \in CyclePasses :
        /\ i < j
        /\ loopLog[i].completed
        /\ ~loopLog[i].notified
        /\ loopLog[i].staged # {}
        /\ tempFiles = {}

\* C19: when a poll cycle has ended, every reply of its batch has had its
\* pass through the loop, whatever failed in the passes before it; a pass in
\* which nothing fails runs to its end.
C19_FailureDoesNotAbortBatch ==
    /\ pc = "idle"
          => Cardinality(CyclePasses)
                 = Cardinality({i \in DOMAIN corr : corr[i].accepted})
    /\ \A j \in DOMAIN loopLog :
          loopLog[j].fault = "none" => loopLog[j].completed

\* C19 witness: the registry call raised in the pass of the first reply of a
\* batch and the pass of the second reply ran to its end
C19_Witness ==
    \E i \in CyclePasses, j \in CyclePasses :
        /\ i < j
        /\ loopLog[i].raised
        /\ loopLog[j].completed
        /\ loopLog[j].fault = "none"
        /\ pc = "idle"

----------------------------------------------------------------------------
(* Overlapping invocations of process_email_replies: reply_processor.py    *)
(*                                                                         *)
(* process_email_replies is a coroutine: between its awaits (the fetch,    *)
(* the row lookup, the mark, the registry call and the notification)       *)
(* another invocation on the same event loop can run.  The scheduler       *)
(* starts the first invocation; a further one is a direct call made while  *)
(* the first is in progress.  Nothing in the function guards against it.   *)

MaxRuns == 2

\* An invocation is in progress
InProgress(run) == run.pc # "done"

\* process_email_replies is invoked: by the interval job, or directly while
\* the job's invocation is in progress
InvokeCycle ==
    /\ Len(runs) < MaxRuns
    /\ runs # <<>> => InProgress(runs[1])
    /\ runs' = Append(runs,
                  [by |-> IF runs = <<>> THEN "scheduler" ELSE "manual",
                   pc |-> "fetch", batch |-> <<>>, replies |-> <<>>,
                   sent_email |-> NoRow])
    /\ UNCHANGED <<ledgerVars, mailbox, pc, cycle, box, prevBox,
                   pendingAtFetch, corr, replies, processed_count, marks,
                   registry, notifications, tempFiles, loopLog,
                   jobs, campaignVars, configVars>>

\* Where the loop goes on after the pass of the first reply of rest
AfterPass(rest) == IF Tail(rest) = <<>> THEN "done" ELSE "lookup"

\* Mutant of StepAfter: the requester is notified before the row is marked.
StepAfterNotifyFirst(step) ==
    CASE step = "lookup" -> "notify"
      [] step = "notify" -> "mark"
      [] step = "mark" -> "registry"
      [] OTHER -> "end"

\* The order of the awaits of one pass of the loop body, after the row was
\* found: mark, registry update, notification
StepAfter(step) ==
    CASE step = "lookup" -> "mark"
      [] step = "mark" -> "registry"
      [] step = "registry" -> "notify"
      [] OTHER -> "end"

\* The invocation after the given step of its pass
Advance(run, step) ==
    IF StepAfter(step) = "end"
    THEN [run EXCEPT !.replies = Tail(@), !.sent_email = NoRow,
                     !.pc = AfterPass(run.replies)]
    ELSE [run EXCEPT !.pc = StepAfter(step)]

\* await email_receiver.fetch_unprocessed_replies(since_days=7)
RunFetch(i) ==
    /\ runs[i].pc = "fetch"
    /\ LET batch == fetch_unprocessed_replies(mailbox, ledger)
       IN  runs' = [runs EXCEPT ![i].batch = batch,
                                ![i].replies = batch,
                                ![i].pc = IF batch = <<>> THEN "done"
                                          ELSE "lookup"]
    /\ UNCHANGED <<ledgerVars, mailbox, pc, cycle, box, prevBox,
                   pendingAtFetch, corr, replies, processed_count, marks,
                   registry, notifications, tempFiles, loopLog,
                   jobs, campaignVars, configVars>>

\* await get_sent_email_by_message_id(original_message_id)
RunLookup(i) ==
    /\ runs[i].pc = "lookup"
    /\ LET r == Head(runs[i].replies)
           sent_email == get_sent_email_by_message_id(ledger,
                                                      OriginalMessageId(r))
       IN  runs' = IF OriginalMessageId(r) = NoId \/ sent_email = NoRow
                   THEN [runs EXCEPT ![i].replies = Tail(@),
                                     ![i].pc = AfterPass(runs[i].replies)]
                   ELSE [runs EXCEPT ![i] =
                            Advance([@ EXCEPT !.sent_email = sent_email],
                                    "lookup")]
    /\ UNCHANGED <<ledgerVars, mailbox, pc, cycle, box, prevBox,
                   pendingAtFetch, corr, replies, processed_count, marks,
                   registry, notifications, tempFiles, loopLog,
                   jobs, campaignVars, configVars>>

\* await mark_reply_received(original_message_id, reply.message_id)
RunMark(i) ==
    /\ runs[i].pc = "mark"
    /\ LET r == Head(runs[i].replies)
           m == mark_reply_received(ledger, OriginalMessageId(r),
                                    r.reply.message_id, now)
       IN  /\ ledger' = m.rows
           /\ marks' = Append(marks,
                         [cycle |-> i, reply |-> r.reply,
                          row |-> OriginalMessageId(r), ok |-> m.ok,
                          was_replied |->
                              RowOf(OriginalMessageId(r)).reply_received])
    /\ runs' = [runs EXCEPT ![i] = Advance(@, "mark")]
    /\ UNCHANGED <<now, lastOp, mailbox, pc, cycle, box, prevBox,
                   pendingAtFetch, corr, replies, processed_count,
                   registry, notifications, tempFiles, loopLog,
                   jobs, campaignVars, configVars>>

\* The registry update for a row with a sheet_id (an await of the
\* google_sheets_service), with the row as the lookup read it
RunRegistry(i) ==
    /\ runs[i].pc = "registry"
    /\ LET r == Head(runs[i].replies)
           sent_email == runs[i].sent_email
       IN  registry' = IF sent_email.sheet_id # NoSheet
                       THEN Append(registry,
                                   [RegistryUpdate(sent_email, r)
                                       EXCEPT !.cycle = i])
                       ELSE registry
    /\ runs' = [runs EXCEPT ![i] = Advance(@, "registry")]
    /\ UNCHANGED <<ledgerVars, mailbox, pc, cycle, box, prevBox,
                   pendingAtFetch, corr, replies, processed_count, marks,
                   notifications, tempFiles, loopLog, jobs, campaignVars,
                   configVars>>

\* await notify_user_about_reply(...), with the row as the lookup read it
RunNotify(i) ==
    /\ runs[i].pc = "notify"
    /\ LET r == Head(runs[i].replies)
           sent_email == runs[i].sent_email
       IN  notifications' = Append(notifications,
                         [cycle |-> i, reply |-> r.reply,
                          row |-> sent_email.message_id,
                          email_type |-> sent_email.email_type,
                          telegram_user_id |-> sent_email.telegram_user_id])
    /\ runs' = [runs EXCEPT ![i] = Advance(@, "notify")]
    /\ UNCHANGED <<ledgerVars, mailbox, pc, cycle, box, prevBox,
                   pendingAtFetch, corr, replies, processed_count, marks,
                   registry, tempFiles, loopLog, jobs, campaignVars,
                   configVars>>

RaceNext ==
    \/ Deliver
    \/ InvokeCycle
    \/ \E i \in DOMAIN runs : RunFetch(i)
    \/ \E i \in DOMAIN runs : RunLookup(i)
    \/ \E i \in DOMAIN runs : RunMark(i)
    \/ \E i \in DOMAIN runs : RunRegistry(i)
    \/ \E i \in DOMAIN runs : RunNotify(i)

\* Rows of one campaign, all pending; no invocation yet
RaceInit == FaultInit

RaceSpec == RaceInit /\ [][RaceNext]_vars

----------------------------------------------------------------------------
(* Claims about overlapping invocations, under RaceSpec *)

\* Both invocations have ended and both had the reply d in their batch,
\* matched to the same row
BothSaw(d) ==
    /\ Len(runs) >= 2
    /\ ~InProgress(runs[1])
    /\ ~InProgress(runs[2])
    /\ runs[2].by = "manual"
    /\ d.reply.message_id # NoId
    /\ \E k \in DOMAIN runs[2].batch : runs[2].batch[k] = d

\* Notifications sent for an inbound message
NotificationsFor(reply) ==
    {n \in DOMAIN notifications : notifications[n].reply = reply}

\* C20: when process_email_replies was invoked manually while the scheduled
\* invocation was in progress and both had the same unprocessed inbound
\* message in their batch, then after both have ended the row is marked
\* replied with that message's identifier and exactly one notification was
\* sent for the message.
C20_OverlappingCyclesNotifyOnce ==
    Len(runs) >= 2 =>
      \A k \in DOMAIN runs[1].batch :
        BothSaw(runs[1].batch[k])
            => LET d == runs[1].batch[k]
               IN  /\ RowOf(d.matched_message_id).reply_received
                   /\ RowOf(d.matched_message_id).reply_message_id
                          = d.reply.message_id
                   /\ Cardinality(NotificationsFor(d.reply)) = 1

----------------------------------------------------------------------------
(* Claims about the scheduler job and the fetch outcomes, under FaultSpec *)

\* Passes of the candidate loop in the given cycle
PassesOf(c) == {j \in DOMAIN loopLog : loopLog[j].cycle = c}

\* C21: every run of check_email_replies_job returns normally, also when the
\* cycle inside it raised; a cycle that raised has made no pass through the
\* candidate loop; and whenever the job is not running the next scheduled
\* cycle can start, whatever the cycles before it did.
C21_JobAlwaysReturns ==
    /\ Len(jobs) = cycle
    /\ \A j \in DOMAIN jobs :
          /\ jobs[j].job = "returned"
          /\ jobs[j].process_email_replies = "raised"
                 => PassesOf(jobs[j].cycle) = {}
    /\ (pc = "idle" /\ cycle < MaxCycles) => ENABLED StartJob

\* C21 witness: the fetch of one cycle raised, the job returned, and the
\* next cycle fetched a reply, marked its row and notified the requester
C21_Witness ==
    \E i \in DOMAIN jobs, p \in DOMAIN loopLog :
        /\ jobs[i].process_email_replies = "raised"
        /\ jobs[i].job = "returned"
        /\ loopLog[p].cycle = jobs[i].cycle + 1
        /\ loopLog[p].completed
        /\ loopLog[p].notified
        /\ pc = "idle"

\* C22: a fetch whose connection or login failed yields no messages, and
\* what it hands to its caller differs from what a successful fetch of an
\* empty mailbox hands to its caller.
C22_ConnectionFailureToldApart ==
    \A i \in DOMAIN jobs, j \in DOMAIN jobs :
        (/\ jobs[i].connection = "failed"
         /\ jobs[j].connection = "ok"
         /\ jobs[j].inbox = <<>>)
            => /\ jobs[i].all_replies = <<>>
               /\ jobs[i].all_replies # jobs[j].all_replies

----------------------------------------------------------------------------
(* Claims about the correlation steps, under Spec *)

\* The rows that were pending when the current cycle fetched, in query order
PendingAtFetch ==
    SelectSeq(ledger, LAMBDA e : e.message_id \in pendingAtFetch)

\* Message-IDs of all rows of the ledger
LedgerIds == {ledger[i].message_id : i \in DOMAIN ledger}

\* No candidate before position i of the batch was returned as matched
NoEarlierAccepted(i) == \A k \in 1..(i - 1) : ~corr[k].accepted

\* Pending rows of the campaign whose tracking code the subject carries
SubjectCodeRows(subject) ==
    SelectSeq(PendingAtFetch,
              LAMBDA e : /\ extract_tracking_code(subject) # NoCode
                         /\ e.subject_code = extract_tracking_code(subject))

\* Among them, the rows whose category keyword the subject contains
SubjectTypedRows(subject) ==
    SelectSeq(SubjectCodeRows(subject),
              LAMBDA e : TypeMatchesSubject(e.email_type, subject.words))

\* The row the tracking-code step designates for a subject, NoId if none
RowBySubjectCode(subject) ==
    IF SubjectTypedRows(subject) # <<>>
    THEN FirstId(SubjectTypedRows(subject))
    ELSE FirstId(SubjectCodeRows(subject))

\* The first identifier of a References chain that is in the given set
FirstRefAmong(references, ids) ==
    FirstId(SelectSeq([k \in DOMAIN references |->
                          [message_id |-> references[k]]],
                      LAMBDA e : e.message_id \in ids))

\* C23: the steps are tried in strict order.  A candidate whose subject code
\* designates one pending row and whose In-Reply-To names another pending
\* row is matched to the row of the tracking code; a candidate for which the
\* tracking-code step has no row and whose In-Reply-To names a pending row is
\* matched to that row, whatever its References chain holds.
C23_TrackingCodeBeforeInReplyTo ==
    \A i \in DOMAIN corr :
        LET d == corr[i]
            byCode == RowBySubjectCode(d.reply.subject)
        IN  (d.step # "processed" /\ NoEarlierAccepted(i)
               /\ d.reply.in_reply_to \in pendingAtFetch)
            => /\ (byCode # NoId /\ byCode # d.reply.in_reply_to)
                      => d.matched_message_id = byCode
               /\ byCode = NoId
                      => d.matched_message_id = d.reply.in_reply_to

\* C24: a candidate whose subject code is the code of pending rows and whose
\* subject has no category keyword of any of them is matched to the oldest
\* pending row of that code.
C24_CodeWithoutKeywordToOldest ==
    \A i \in DOMAIN corr :
        LET d == corr[i]
        IN  (/\ d.step # "processed"
             /\ NoEarlierAccepted(i)
             /\ SubjectCodeRows(d.reply.subject) # <<>>
             /\ SubjectTypedRows(d.reply.subject) = <<>>)
            => /\ d.accepted
               /\ d.matched_message_id
                      = FirstId(SubjectCodeRows(d.reply.subject))

\* C25 as stated: when the tracking-code step and the In-Reply-To step yield
\* nothing, the match is the first identifier of the References chain that
\* is the Message-ID of a row of the ledger.
C25_FirstReferenceInLedger ==
    \A i \in DOMAIN corr :
        LET d == corr[i]
        IN  (/\ d.step \notin {"processed", "code"}
             /\ d.reply.in_reply_to \notin LedgerIds)
            => d.matched_message_id
                   = FirstRefAmong(d.reply.references, LedgerIds)

\* C25 amended: when the tracking-code step and the In-Reply-To step yield
\* nothing, the match is the first identifier of the References chain, in
\* header order, that is the Message-ID of a row pending at fetch time; the
\* reply is returned with that row unless an earlier reply of the batch took
\* the row, and the loop marks exactly that row for it.
C25_FirstPendingReference ==
    \A i \in DOMAIN corr :
        LET d == corr[i]
        IN  (/\ d.step \notin {"processed", "code"}
             /\ d.reply.in_reply_to \notin pendingAtFetch)
            => /\ d.matched_message_id
                      = FirstRefAmong(d.reply.references, pendingAtFetch)
               /\ d.accepted
                      <=> /\ d.matched_message_id # NoId
                          /\ \A k \in 1..(i - 1) :
                                ~(/\ corr[k].accepted
                                  /\ corr[k].matched_message_id
                                         = d.matched_message_id)
               /\ \A m \in CycleEntries(marks) :
                      (marks[m].reply = d.reply /\ d.accepted)
                          => marks[m].row = d.matched_message_id

\* C25 witness: the first identifier of a chain of two belongs to a row that
\* was already replied, the second to a pending row; the reply was matched
\* to the second and the loop marked that row
C25_Witness ==
    \E i \in DOMAIN corr, m \in CycleEntries(marks) :
        /\ corr[i].step = "references"
        /\ Len(corr[i].reply.references) = 2
        /\ corr[i].reply.references[1] \in LedgerIds \ pendingAtFetch
        /\ corr[i].matched_message_id = corr[i].reply.references[2]
        /\ corr[i].accepted
        /\ marks[m].reply = corr[i].reply
        /\ marks[m].row = corr[i].matched_message_id
        /\ pc = "idle"

\* C26: the replies one cycle returns as matched carry pairwise distinct
\* matched_message_id values, and the loop marks no row twice in one cycle.
C26_DistinctMatchedRows ==
    /\ \A i \in DOMAIN corr, j \in DOMAIN corr :
          (i # j /\ corr[i].accepted /\ corr[j].accepted)
              => corr[i].matched_message_id # corr[j].matched_message_id
    /\ \A i \in DOMAIN replies, j \in DOMAIN replies :
          i # j => replies[i].matched_message_id # replies[j].matched_message_id
    /\ \A m \in CycleEntries(marks), n \in CycleEntries(marks) :
          m # n => marks[m].row # marks[n].row

\* C26 witness: two candidates of one batch were matched to the same row;
\* the first was returned and processed, the second was dropped
C26_Witness ==
    \E i \in DOMAIN corr, j \in DOMAIN corr :
        /\ i < j
        /\ corr[i].accepted
        /\ ~corr[j].accepted
        /\ corr[j].matched_message_id # NoId
        /\ corr[j].matched_message_id = corr[i].matched_message_id
        /\ \E m \in CycleEntries(marks) :
              marks[m].row = corr[i].matched_message_id
        /\ pc = "idle"

\* The message is not a candidate, or no step has a row for it: no pending
\* row stores its subject's code, its In-Reply-To is not the Message-ID of a
\* pending row, and neither is any identifier of its References chain
Unmatched(m) ==
    \/ ~IsCandidate(m)
    \/ /\ CodeToEmails(PendingAtFetch, extract_tracking_code(m.subject)) = <<>>
       /\ m.in_reply_to \notin pendingAtFetch
       /\ FirstRefAmong(m.references, pendingAtFetch) = NoId

\* C27: for a message of the fetched mailbox that no step matched to a row,
\* the cycle makes no mark call, no registry update and no notification.
C27_UnmatchedNoEffects ==
    \A i \in DOMAIN box :
        Unmatched(box[i])
        => /\ \A m \in CycleEntries(marks) : marks[m].reply # box[i]
           /\ \A m \in CycleEntries(registry) : registry[m].reply # box[i]
           /\ \A m \in CycleEntries(notifications) :
                 notifications[m].reply # box[i]

\* C27 witness: a cycle ended whose batch held a candidate that no step
\* matched and a reply that was matched, marked and notified
C27_Witness ==
    \E i \in DOMAIN corr, m \in CycleEntries(notifications) :
        /\ corr[i].step = "none"
        /\ notifications[m].reply # corr[i].reply
        /\ pc = "idle"

----------------------------------------------------------------------------
(* Claims about the order of the effects of one pass, under RaceSpec *)

\* Mark calls the invocation made for the reply and the row
MarksOf(entry) ==
    {m \in DOMAIN marks : /\ marks[m].cycle = entry.cycle
                          /\ marks[m].reply = entry.reply
                          /\ marks[m].row = RowOf(entry.row).message_id}

\* C28: the effects of one pass come in the order mark, registry update,
\* notification.  Whenever a registry update or a notification for a reply
\* exists, the invocation that made it has already marked the reply's row
\* and the row is replied; whenever a notification for a row with a sheet_id
\* exists, the invocation has already made the registry update for it.
C28_MarkThenRegistryThenNotify ==
    /\ \A g \in DOMAIN registry :
          /\ MarksOf(registry[g]) # {}
          /\ RowOf(registry[g].row).reply_received
    /\ \A n \in DOMAIN notifications :
          /\ MarksOf(notifications[n]) # {}
          /\ RowOf(notifications[n].row).reply_received
          /\ RowOf(notifications[n].row).sheet_id # NoSheet
                 => \E g \in DOMAIN registry :
                       /\ registry[g].cycle = notifications[n].cycle
                       /\ registry[g].reply = notifications[n].reply

\* C28 witness: an invocation has ended that marked a row with a sheet_id,
\* updated the registry and notified the requester
C28_Witness ==
    \E i \in DOMAIN runs, n \in DOMAIN notifications, g \in DOMAIN registry :
        /\ runs[i].pc = "done"
        /\ notifications[n].cycle = i
        /\ registry[g].cycle = i
        /\ registry[g].reply = notifications[n].reply
        /\ MarksOf(notifications[n]) # {}

----------------------------------------------------------------------------
(* Claims about what a replied row stores and what a cycle returns *)

\* Mark calls that found the row
MarksOfRow(message_id) ==
    {m \in DOMAIN marks : marks[m].row = message_id /\ marks[m].ok}

\* C29: every row with reply_received = true stores an identifier, and it is
\* the Message-ID of an inbound message that a cycle correlated to the row
\* and marked it with.
C29_RepliedRowStoresReplyId ==
    \A i \in DOMAIN ledger :
        ledger[i].reply_received
        => /\ ledger[i].reply_message_id # NoId
           /\ \E m \in MarksOfRow(ledger[i].message_id) :
                 marks[m].reply.message_id = ledger[i].reply_message_id


\* Replies the current cycle recorded as replied in the ledger: mark calls
\* that succeeded on a row that was pending
RecordedThisCycle ==
    {m \in CycleEntries(marks) : marks[m].ok /\ ~marks[m].was_replied}

\* C30: when a cycle has ended, the value process_email_replies returns is
\* the number of replies the cycle correlated and recorded as replied in the
\* ledger.
C30_ReturnCountsRecordedReplies ==
    pc = "idle" => processed_count = Cardinality(RecordedThisCycle)

----------------------------------------------------------------------------
(* Claims about concurrent cycles, under RaceSpec *)

\* Invocations of process_email_replies that are in progress
RunsInProgress == {i \in DOMAIN runs : InProgress(runs[i])}

\* C31: at no time are two poll cycles in progress against the same ledger:
\* a cycle triggered while another is in progress waits or is skipped.
C31_NoConcurrentCycles == Cardinality(RunsInProgress) <= 1

----------------------------------------------------------------------------
(* Claims about the candidate filter of the fetcher, under FaultSpec *)

\* The message has an In-Reply-To header or its subject begins with a
\* reply/forward marker
HasReplyHeaderOrMarker(m) == m.in_reply_to # NoId \/ m.subject.re

\* The message carries a tracking code, or its References chain names a row
\* of the ledger
PointsAtRow(m) ==
    \/ extract_tracking_code(m.subject) # NoCode
    \/ \E k \in DOMAIN m.references : RowOf(m.references[k]) # NoRow

----------------------------------------------------------------------------
(* Claims about the category of the row of a coded subject, under Spec *)

\* Categories whose keyword the subject contains
KeywordCategories(subject) ==
    {t \in {"sb_check", "docsinbox", "roaming", "documents"} :
        TypeMatchesSubject(t, subject.words)}

RowOrders(rowlist) ==
    {[i \in DOMAIN rowlist |-> rowlist[p[i]]] :
        p \in {q \in [DOMAIN rowlist -> DOMAIN rowlist] :
                  \A i, j \in DOMAIN rowlist : i # j => q[i] # q[j]}}

----------------------------------------------------------------------------
(* Claims about the mark call and its effects *)

\* Mark calls of the same cycle for the reply and the row that reported
\* success and stored the reply's identifier
SuccessfulMarksOf(entry) ==
    {m \in DOMAIN marks : /\ marks[m].cycle = entry.cycle
                          /\ marks[m].reply = entry.reply
                          /\ marks[m].row = entry.row
                          /\ marks[m].ok}

\* C35: a notification or a registry update for a reply exists only if the
\* mark call of that pass reported success; after a mark call that reported
\* failure there is neither for the reply.
C35_EffectsOnlyAfterSuccessfulMark ==
    /\ \A n \in DOMAIN notifications :
          SuccessfulMarksOf(notifications[n]) # {}
    /\ \A g \in DOMAIN registry : SuccessfulMarksOf(registry[g]) # {}

\* C36: no two different rows of the ledger store the same non-null
\* reply_message_id.
C36_ReplyIdOnOneRow ==
    \A i \in DOMAIN ledger, j \in DOMAIN ledger :
        (i # j /\ ledger[i].reply_message_id # NoId)
            => ledger[i].reply_message_id # ledger[j].reply_message_id


\* C37: in cycles that run one after another, every mark call is made on a
\* row that is pending at the time of the call, and no step changes the
\* reply_message_id or reply_received_at of a row that is already replied.
C37_MarkOnlyPendingRows ==
    [][/\ \A m \in DOMAIN marks' : ~marks'[m].was_replied
       /\ \A i \in DOMAIN ledger :
             ledger[i].reply_received
             => /\ ledger'[i].reply_message_id = ledger[i].reply_message_id
                /\ ledger'[i].reply_received_at
                       = ledger[i].reply_received_at]_vars

\* C37 witness: a row was marked in an earlier cycle; a later cycle fetched
\* another message with that row in its In-Reply-To, marked another row, and
\* the first row still stores what the earlier cycle stored
C37_Witness ==
    \E m \in DOMAIN marks, i \in DOMAIN box :
        /\ marks[m].cycle < cycle
        /\ box[i].in_reply_to = marks[m].row
        /\ box[i].message_id # marks[m].reply.message_id
        /\ box[i].message_id # NoId
        /\ RowOf(marks[m].row).reply_message_id = marks[m].reply.message_id
        /\ CycleEntries(marks) # {}
        /\ pc = "idle"

----------------------------------------------------------------------------
(* Claims about the report of a campaign, under CampaignSpec *)

\* Truth value of one entry of the result dict: the tracking code is a
\* string, the other entries are booleans
Truthy(results, key) ==
    IF key = "tracking_code" THEN results[key] # "" ELSE results[key]

\* sent_count = sum(1 for v in results.values() if v)
sent_count(results) ==
    Cardinality({key \in DOMAIN results : Truthy(results, key)})

\* total = len(results)
total(results) == Cardinality(DOMAIN results)

\* C39: the sent count computed from the result of a campaign is the number
\* of its letters whose send succeeded; it exceeds neither 4 nor the reported
\* total.
C39_SentCountIsSuccesses ==
    \A c \in DOMAIN campaigns :
        LET attempts == campaigns[c].attempts
            successes == {i \in DOMAIN attempts : attempts[i].success}
        IN  /\ sent_count(campaigns[c].results) = Cardinality(successes)
            /\ sent_count(campaigns[c].results) <= 4
            /\ sent_count(campaigns[c].results)
                   <= total(campaigns[c].results)

====
